---- MODULE Spec2Model ----
(***************************************************************************)
(* Lifting Diary: the ownership-scoped query layer (src/data/workouts.ts), *)
(* the server actions that wrap it (createWorkoutAction,                   *)
(* updateWorkoutAction, the dashboard's createWorkoutAction) and the       *)
(* protected pages that read through it.                                   *)
(*                                                                         *)
(* JavaScript values are tagged records, so that null, strings and Dates   *)
(* stay distinct values; a JavaScript object is a function from its keys   *)
(* to values, and an omitted key is a key outside its DOMAIN.              *)
(***************************************************************************)
EXTENDS Integers, Sequences, FiniteSets, TLC

VARIABLES
    workouts,   \* the rows of the workouts table
    exercises,  \* the rows of the exercises table
    workoutExercises,   \* the rows of the workout_exercises table
    sets,       \* the rows of the sets table
    statements, \* the statements sent to the store: in flight, or committed
    now,        \* the clock read by defaultNow() and by new Date()
    steps,      \* number of steps so far that changed the table
    last,       \* the request being answered: what was called, by whom, what came back
    newWorkoutForm,   \* NewWorkoutForm's state: loading, error, and whether it navigated away
    dashboardClient   \* DashboardClient's state: isSubmitting, isDialogOpen

vars == <<workouts, exercises, workoutExercises, sets, statements, now, steps, last,
          newWorkoutForm, dashboardClient>>

(* what no server action and no page writes *)
nested == <<exercises, workoutExercises, sets>>

----------------------------------------------------------------------------
(* Bounds of the model *)

MaxWorkouts == 2    \* uuids the store can hand out
MaxSteps == 2       \* changes of the table per behaviour
MaxNested == 2      \* rows of the workout_exercises table, and of the sets table

(* Program constants *)

NameMin == 1
NameMax == 100

----------------------------------------------------------------------------
(* Values *)

Null == [t |-> "null"]
Str(s) == [t |-> "string", v |-> s]
DateOf(ms) == [t |-> "date", v |-> ms]
InvalidDate == [t |-> "date", v |-> -1]     \* new Date(NaN)

(* two instants: an earlier and a later one, and ties between rows *)
Times == 0..1
LastTime == CHOOSE t \in Times : \A u \in Times : u <= t
Dates == {DateOf(ms) : ms \in Times}

Users == {"user_A", "user_B"}
NoUser == "null"                            \* auth() resolved no session
Sessions == Users \cup {NoUser}

RECURSIVE Pad(_)
Pad(n) == IF n = 0 THEN "" ELSE "x" \o Pad(n - 1)

RECURSIVE IdsUpTo(_)
IdsUpTo(n) == IF n = 0 THEN {} ELSE IdsUpTo(n - 1) \cup {<<"uuid", n>>}

Uuids == IdsUpTo(MaxWorkouts)               \* ids defaultRandom() can produce
UnusedUuid == <<"uuid", 0>>                 \* well formed, never stored
NotAUuid == <<"text", 0>>                   \* a string that is no uuid

IsUuidSyntax(id) == id[1] = "uuid"

(* {...a, ...b}: the keys of both, b's value where both have the key *)
Merge(a, b) ==
    [k \in DOMAIN a \cup DOMAIN b |-> IF k \in DOMAIN b THEN b[k] ELSE a[k]]

(* the object without some keys *)
Omit(a, keys) == [k \in DOMAIN a \ keys |-> a[k]]

(* the value of a column: the one given, or the column's default *)
Col(values, k, default) == IF k \in DOMAIN values THEN values[k] ELSE default

----------------------------------------------------------------------------
(* Zod schemas *)

IsValidDate(v) == v.t = "date" /\ v.v >= 0

(* mutant: no .max(100) *)
IsNameString_NoMax(v) == v.t = "string" /\ Len(v.v) >= NameMin

(* z.string().min(1).max(100) *)
IsNameString(v) == v.t = "string" /\ Len(v.v) >= NameMin /\ Len(v.v) <= NameMax

(* createWorkoutSchema: the keys that fail *)
createWorkoutSchemaErrors(input) ==
    {k \in {"name"} :
        ~ ("name" \in DOMAIN input
           /\ (input.name = Null \/ IsNameString(input.name)))}
    \cup
    {k \in {"startedAt"} :
        ~ ("startedAt" \in DOMAIN input /\ IsValidDate(input.startedAt))}

(* z.object strips the keys the schema does not name *)
createWorkoutSchemaData(input) ==
    [k \in DOMAIN input \cap {"name", "startedAt"} |-> input[k]]

(* mutant: completedAt z.date().optional(), not nullable *)
updateWorkoutSchemaErrors_CompletedAtNotNull(input) ==
    {k \in {"workoutId"} :
        ~ ("workoutId" \in DOMAIN input /\ IsUuidSyntax(input.workoutId))}
    \cup
    {k \in {"name"} :
        "name" \in DOMAIN input
        /\ ~ (input.name = Null \/ IsNameString(input.name))}
    \cup
    {k \in {"startedAt"} :
        "startedAt" \in DOMAIN input /\ ~ IsValidDate(input.startedAt)}
    \cup
    {k \in {"completedAt"} :
        "completedAt" \in DOMAIN input /\ ~ IsValidDate(input.completedAt)}

(* mutant: a .refine() that rejects a completedAt before the startedAt *)
updateWorkoutSchemaErrors_Refined(input) ==
    {k \in {"workoutId"} :
        ~ ("workoutId" \in DOMAIN input /\ IsUuidSyntax(input.workoutId))}
    \cup
    {k \in {"name"} :
        "name" \in DOMAIN input
        /\ ~ (input.name = Null \/ IsNameString(input.name))}
    \cup
    {k \in {"startedAt"} :
        "startedAt" \in DOMAIN input /\ ~ IsValidDate(input.startedAt)}
    \cup
    {k \in {"completedAt"} :
        "completedAt" \in DOMAIN input
        /\ ~ (input.completedAt = Null \/ IsValidDate(input.completedAt))}
    \cup
    {k \in {"completedAt"} :
        /\ {"startedAt", "completedAt"} \subseteq DOMAIN input
        /\ IsValidDate(input.startedAt) /\ IsValidDate(input.completedAt)
        /\ input.completedAt.v < input.startedAt.v}

(* updateWorkoutSchema: the keys that fail *)
updateWorkoutSchemaErrors(input) ==
    {k \in {"workoutId"} :
        ~ ("workoutId" \in DOMAIN input /\ IsUuidSyntax(input.workoutId))}
    \cup
    {k \in {"name"} :
        "name" \in DOMAIN input
        /\ ~ (input.name = Null \/ IsNameString(input.name))}
    \cup
    {k \in {"startedAt"} :
        "startedAt" \in DOMAIN input /\ ~ IsValidDate(input.startedAt)}
    \cup
    {k \in {"completedAt"} :
        "completedAt" \in DOMAIN input
        /\ ~ (input.completedAt = Null \/ IsValidDate(input.completedAt))}

(* mutant: z.object({...}).passthrough() *)
updateWorkoutSchemaData_Passthrough(input) == [k \in DOMAIN input |-> input[k]]

(* validation.data: the keys the schema names *)
updateWorkoutSchemaData(input) ==
    [k \in DOMAIN input \cap {"workoutId", "name", "startedAt", "completedAt"}
        |-> input[k]]

----------------------------------------------------------------------------
(* The query layer: src/data/workouts.ts.  Each operator takes the table   *)
(* and returns what the function returns; the writers also return the      *)
(* table they leave.                                                       *)

NotFound == [t |-> "undefined"]

(* mutant: the userId condition dropped from the where clause *)
getUserWorkoutWhere_IdOnly(row, workoutId, userId) == row.id = workoutId

(* where: and(eq(workouts.id, workoutId), eq(workouts.userId, userId)) *)
getUserWorkoutWhere(row, workoutId, userId) ==
    row.id = workoutId /\ row.userId = userId

getUserWorkout(store, workoutId, userId) ==
    LET found == {row \in store : getUserWorkoutWhere(row, workoutId, userId)}
    IN  IF found = {} THEN NotFound ELSE CHOOSE row \in found : TRUE

(* mutant: the data spread last, so that its keys win *)
createWorkoutValues_DataLast(data, userId) ==
    Merge([userId |-> userId, completedAt |-> Null], data)

(* insert(workouts).values({...data, userId, completedAt: null}).returning() *)
createWorkoutValues(data, userId) ==
    Merge(data, [userId |-> userId, completedAt |-> Null])

(* mutant: startedAt defaulted to the clock like createdAt *)
insertedRow_StartedNow(values, newId, clock) ==
    [id          |-> Col(values, "id", newId),
     userId      |-> values.userId,
     name        |-> Col(values, "name", Null),
     startedAt   |-> DateOf(clock),
     completedAt |-> Col(values, "completedAt", Null),
     createdAt   |-> Col(values, "createdAt", DateOf(clock)),
     updatedAt   |-> Col(values, "updatedAt", DateOf(clock))]

insertedRow(values, newId, clock) ==
    [id          |-> Col(values, "id", newId),
     userId      |-> values.userId,
     name        |-> Col(values, "name", Null),
     startedAt   |-> values.startedAt,
     completedAt |-> Col(values, "completedAt", Null),
     createdAt   |-> Col(values, "createdAt", DateOf(clock)),
     updatedAt   |-> Col(values, "updatedAt", DateOf(clock))]

createWorkout(store, data, userId, newId, clock) ==
    LET row == insertedRow(createWorkoutValues(data, userId), newId, clock)
    IN  [store |-> store \cup {row}, workout |-> row]

(* mutant: the userId condition dropped from the where clause *)
updateWorkoutWhere_IdOnly(row, workoutId, userId) == row.id = workoutId

(* mutant: only a workout in progress matches *)
updateWorkoutWhere_OpenOnly(row, workoutId, userId) ==
    row.id = workoutId /\ row.userId = userId /\ row.completedAt = Null

(* where: and(eq(workouts.id, workoutId), eq(workouts.userId, userId)) *)
updateWorkoutWhere(row, workoutId, userId) ==
    row.id = workoutId /\ row.userId = userId

(* mutant: updatedAt left to the data *)
updateWorkoutSet_NoStamp(data, clock) == data

(* set({...data, updatedAt: new Date()}) *)
updateWorkoutSet(data, clock) == Merge(data, [updatedAt |-> DateOf(clock)])

(* mutant: a column the set clause does not name is reset *)
updatedRow_Replace(row, set) ==
    [k \in DOMAIN row |->
        IF k \in DOMAIN set THEN set[k]
        ELSE IF k \in {"name", "completedAt"} THEN Null ELSE row[k]]

(* mutant: a column keeps the value it has unless that is null *)
updatedRow_FirstWins(row, set) ==
    [k \in DOMAIN row |->
        IF k \in DOMAIN set /\ (row[k] = Null \/ k = "updatedAt")
        THEN set[k] ELSE row[k]]

(* mutant: updatedAt set to the greater of the stored and the given one *)
updatedRow_GreatestStamp(row, set) ==
    [k \in DOMAIN row |->
        IF k \notin DOMAIN set THEN row[k]
        ELSE IF k = "updatedAt" /\ set[k].v < row[k].v THEN row[k]
        ELSE set[k]]

updatedRow(row, set) ==
    [k \in DOMAIN row |-> IF k \in DOMAIN set THEN set[k] ELSE row[k]]

updateWorkout(store, workoutId, data, userId, clock) ==
    LET hit == {row \in store : updateWorkoutWhere(row, workoutId, userId)}
        set == updateWorkoutSet(data, clock)
        new == {updatedRow(row, set) : row \in hit}
    IN  [store   |-> (store \ hit) \cup new,
         workout |-> IF new = {} THEN NotFound ELSE CHOOSE row \in new : TRUE]

----------------------------------------------------------------------------
(* findMany({where: eq(workouts.userId, userId), orderBy: desc(startedAt)}) *)

getUserWorkoutsWhere(row, userId) == row.userId = userId

(* mutant: asc for desc *)
orderByStartedAtAsc(seq) ==
    \A i, j \in 1..Len(seq) : i < j => seq[i].startedAt.v <= seq[j].startedAt.v

(* orderBy: [desc(workouts.startedAt)] *)
orderByStartedAtDesc(seq) ==
    \A i, j \in 1..Len(seq) : i < j => seq[i].startedAt.v >= seq[j].startedAt.v

(* the sequences that list every row of a set once *)
Listings(rows) ==
    {seq \in [1..Cardinality(rows) -> rows] :
        \A i, j \in 1..Cardinality(rows) : i # j => seq[i] # seq[j]}

(* what the query may return: rows with equal startedAt come in any order *)
getUserWorkouts(store, userId) ==
    {seq \in Listings({row \in store : getUserWorkoutsWhere(row, userId)}) :
        orderByStartedAtDesc(seq)}

----------------------------------------------------------------------------
(* getUserWorkoutsByDate: the day of `date` in the server's zone, whose    *)
(* offset from UTC is taken as zero; getTime() is milliseconds.           *)

MsPerDay == 24 * 60 * 60 * 1000

(* d.setHours(hours, min, sec, ms): that time of d's day *)
setHours(d, hours, min, sec, ms) ==
    DateOf((d.v - (d.v % MsPerDay)) + ((hours * 60 + min) * 60 + sec) * 1000 + ms)

(* startOfDay.setHours(0, 0, 0, 0) *)
startOfDay(date) == setHours(date, 0, 0, 0, 0)

(* mutant: the day ends at 23:59:59.000 *)
endOfDay_NoMillis(date) == setHours(date, 23, 59, 59, 0)

(* endOfDay.setHours(23, 59, 59, 999) *)
endOfDay(date) == setHours(date, 23, 59, 59, 999)

(* workoutDate >= startOfDay && workoutDate <= endOfDay *)
byDateFilter(workout, date) ==
    /\ workout.startedAt.v >= startOfDay(date).v
    /\ workout.startedAt.v <= endOfDay(date).v

(* userWorkouts.filter(...): the rows that pass, in the order they had *)
getUserWorkoutsByDate(store, userId, date) ==
    LET keep(workout) == byDateFilter(workout, date)
    IN  {SelectSeq(userWorkouts, keep) : userWorkouts \in getUserWorkouts(store, userId)}

----------------------------------------------------------------------------
(* with: {workoutExercises: {with: {exercise: true, sets: {orderBy}},     *)
(* orderBy}}: what the three reads attach to each workout they return.    *)
(* Rows with equal keys come in any order, so a read has a set of         *)
(* possible results. The joined exercise row is left out.                 *)

(* mutant: desc for asc *)
orderBySetNumberDesc(seq) ==
    \A i, j \in 1..Len(seq) : i < j => seq[i].setNumber >= seq[j].setNumber

(* orderBy: (sets, { asc }) => [asc(sets.setNumber)] *)
orderBySetNumberAsc(seq) ==
    \A i, j \in 1..Len(seq) : i < j => seq[i].setNumber <= seq[j].setNumber

(* mutant: no orderBy on the exercises *)
orderByOrderNone(seq) == Len(seq) >= 0

(* orderBy: (workoutExercises, { asc }) => [asc(workoutExercises.order)] *)
orderByOrderAsc(seq) ==
    \A i, j \in 1..Len(seq) : i < j => seq[i].order <= seq[j].order

withSets(workoutExerciseId, setRows) ==
    {seq \in Listings({row \in setRows : row.workoutExerciseId = workoutExerciseId}) :
        orderBySetNumberAsc(seq)}

withWorkoutExercises(workoutId, exerciseRows, setRows) ==
    LET mine == {row \in exerciseRows : row.workoutId = workoutId}
        setLists == UNION {withSets(row.id, setRows) : row \in mine}
    IN  UNION {
            {[i \in DOMAIN seq |-> Merge(seq[i], [sets |-> pick[i]])] :
                pick \in {f \in [DOMAIN seq -> setLists] :
                             \A i \in DOMAIN seq : f[i] \in withSets(seq[i].id, setRows)}} :
            seq \in {l \in Listings(mine) : orderByOrderAsc(l)}}

(* a listing of workouts, each with its exercises attached *)
withRelations(listing, exerciseRows, setRows) ==
    LET lists == UNION {withWorkoutExercises(listing[i].id, exerciseRows, setRows) :
                            i \in DOMAIN listing}
    IN  {[i \in DOMAIN listing |-> Merge(listing[i], [workoutExercises |-> pick[i]])] :
            pick \in {f \in [DOMAIN listing -> lists] :
                         \A i \in DOMAIN listing :
                             f[i] \in withWorkoutExercises(listing[i].id,
                                                          exerciseRows, setRows)}}

findFirstWithRelations(store, exerciseRows, setRows, workoutId, userId) ==
    LET workout == getUserWorkout(store, workoutId, userId)
    IN  IF workout = NotFound THEN {NotFound}
        ELSE {found[1] : found \in withRelations(<<workout>>, exerciseRows, setRows)}

findManyWithRelations(store, exerciseRows, setRows, userId) ==
    UNION {withRelations(listing, exerciseRows, setRows) :
              listing \in getUserWorkouts(store, userId)}

findManyByDateWithRelations(store, exerciseRows, setRows, userId, date) ==
    UNION {withRelations(listing, exerciseRows, setRows) :
              listing \in getUserWorkoutsByDate(store, userId, date)}

----------------------------------------------------------------------------
(* What a call did: how it ended, which paths it revalidated, which        *)
(* query-layer functions it called, and the table it left.                 *)

Return(v) == [kind |-> "return", value |-> v]
Throw(message) == [kind |-> "throw", message |-> message]

Faults == {"none", "store", "revalidatePath1", "revalidatePath2"}
StoreErrorText == "connect ECONNREFUSED 127.0.0.1:5432"
RevalidateErrorText == "Invariant: static generation store missing in revalidatePath"

DashboardPath == <<"/dashboard">>
WorkoutPath(workoutId) == <<"/dashboard/workout", workoutId>>

Ended(store, outcome, revalidated, queried) ==
    [store |-> store, outcome |-> outcome,
     revalidated |-> revalidated, queried |-> queried]

----------------------------------------------------------------------------
(* createWorkoutAction: src/app/dashboard/workout/new (actions.ts) *)

(* mutant: the path revalidated before the insert *)
createWorkoutTry_RevalidateFirst(store, data, userId, newId, clock, fault) ==
    LET created == createWorkout(store, data, userId, newId, clock)
        failed == Return([success |-> FALSE, error |-> "Failed to create workout"])
    IN  IF fault = "revalidatePath1"
        THEN Ended(store, failed, <<>>, <<>>)
        ELSE IF fault = "store"
        THEN Ended(store, failed, <<DashboardPath>>, <<"createWorkout">>)
        ELSE Ended(created.store,
                   Return([success |-> TRUE, workout |-> created.workout]),
                   <<DashboardPath>>, <<"createWorkout">>)

(* mutant: the insert undone when revalidatePath throws *)
createWorkoutTry_RolledBack(store, data, userId, newId, clock, fault) ==
    LET created == createWorkout(store, data, userId, newId, clock)
        failed == Return([success |-> FALSE, error |-> "Failed to create workout"])
    IN  IF fault = "store"
        THEN Ended(store, failed, <<>>, <<"createWorkout">>)
        ELSE IF fault = "revalidatePath1"
        THEN Ended(store, failed, <<>>, <<"createWorkout">>)
        ELSE Ended(created.store,
                   Return([success |-> TRUE, workout |-> created.workout]),
                   <<DashboardPath>>, <<"createWorkout">>)

createWorkoutTry(store, data, userId, newId, clock, fault) ==
    LET created == createWorkout(store, data, userId, newId, clock)
        failed == Return([success |-> FALSE, error |-> "Failed to create workout"])
    IN  IF fault = "store"
        THEN Ended(store, failed, <<>>, <<"createWorkout">>)
        ELSE IF fault = "revalidatePath1"
        THEN Ended(created.store, failed, <<>>, <<"createWorkout">>)
        ELSE Ended(created.store,
                   Return([success |-> TRUE, workout |-> created.workout]),
                   <<DashboardPath>>, <<"createWorkout">>)

(* mutant: the input validated before the session is looked at *)
createWorkoutAction_ValidateFirst(store, userId, input, newId, clock, fault) ==
    IF createWorkoutSchemaErrors(input) # {}
    THEN Ended(store,
               Return([success |-> FALSE, error |-> "Invalid input",
                       details |-> createWorkoutSchemaErrors(input)]),
               <<>>, <<>>)
    ELSE IF userId = NoUser
    THEN Ended(store, Return([success |-> FALSE, error |-> "Unauthorized"]),
               <<>>, <<>>)
    ELSE createWorkoutTry(store, createWorkoutSchemaData(input), userId,
                          newId, clock, fault)

createWorkoutAction(store, userId, input, newId, clock, fault) ==
    IF userId = NoUser
    THEN Ended(store, Return([success |-> FALSE, error |-> "Unauthorized"]),
               <<>>, <<>>)
    ELSE IF createWorkoutSchemaErrors(input) # {}
    THEN Ended(store,
               Return([success |-> FALSE, error |-> "Invalid input",
                       details |-> createWorkoutSchemaErrors(input)]),
               <<>>, <<>>)
    ELSE createWorkoutTry(store, createWorkoutSchemaData(input), userId,
                          newId, clock, fault)

----------------------------------------------------------------------------
(* updateWorkoutAction: src/app/dashboard/workout/[workoutId]/actions.ts *)

(* mutant: a row of another owner reported as forbidden *)
updateWorkoutTry_Forbidden(store, validated, userId, clock, fault) ==
    LET workoutId == validated.workoutId
        data == Omit(validated, {"workoutId"})
        updated == updateWorkout(store, workoutId, data, userId, clock)
        failed == Return([success |-> FALSE, error |-> "Failed to update workout"])
    IN  IF fault = "store"
        THEN Ended(store, failed, <<>>, <<"updateWorkout">>)
        ELSE IF updated.workout = NotFound
        THEN Ended(updated.store,
                   Return([success |-> FALSE,
                           error |-> IF \E row \in store : row.id = workoutId
                                     THEN "You do not have permission to edit this workout"
                                     ELSE "Workout not found"]),
                   <<>>, <<"updateWorkout">>)
        ELSE IF fault = "revalidatePath1"
        THEN Ended(updated.store, failed, <<>>, <<"updateWorkout">>)
        ELSE IF fault = "revalidatePath2"
        THEN Ended(updated.store, failed, <<DashboardPath>>, <<"updateWorkout">>)
        ELSE Ended(updated.store,
                   Return([success |-> TRUE, workout |-> updated.workout]),
                   <<DashboardPath, WorkoutPath(workoutId)>>, <<"updateWorkout">>)

(* mutant: the returned row not checked, the paths revalidated at once *)
updateWorkoutTry_Unchecked(store, validated, userId, clock, fault) ==
    LET workoutId == validated.workoutId
        data == Omit(validated, {"workoutId"})
        updated == updateWorkout(store, workoutId, data, userId, clock)
        failed == Return([success |-> FALSE, error |-> "Failed to update workout"])
    IN  IF fault = "store"
        THEN Ended(store, failed, <<>>, <<"updateWorkout">>)
        ELSE IF fault = "revalidatePath1"
        THEN Ended(updated.store, failed, <<>>, <<"updateWorkout">>)
        ELSE IF fault = "revalidatePath2"
        THEN Ended(updated.store, failed, <<DashboardPath>>, <<"updateWorkout">>)
        ELSE Ended(updated.store,
                   Return([success |-> TRUE, workout |-> updated.workout]),
                   <<DashboardPath, WorkoutPath(workoutId)>>, <<"updateWorkout">>)

updateWorkoutTry(store, validated, userId, clock, fault) ==
    LET workoutId == validated.workoutId
        data == Omit(validated, {"workoutId"})
        updated == updateWorkout(store, workoutId, data, userId, clock)
        failed == Return([success |-> FALSE, error |-> "Failed to update workout"])
    IN  IF fault = "store"
        THEN Ended(store, failed, <<>>, <<"updateWorkout">>)
        ELSE IF updated.workout = NotFound
        THEN Ended(updated.store,
                   Return([success |-> FALSE,
                           error |-> "Workout not found or you do not have permission to edit it"]),
                   <<>>, <<"updateWorkout">>)
        ELSE IF fault = "revalidatePath1"
        THEN Ended(updated.store, failed, <<>>, <<"updateWorkout">>)
        ELSE IF fault = "revalidatePath2"
        THEN Ended(updated.store, failed, <<DashboardPath>>, <<"updateWorkout">>)
        ELSE Ended(updated.store,
                   Return([success |-> TRUE, workout |-> updated.workout]),
                   <<DashboardPath, WorkoutPath(workoutId)>>, <<"updateWorkout">>)

updateWorkoutAction(store, userId, input, clock, fault) ==
    IF userId = NoUser
    THEN Ended(store, Return([success |-> FALSE, error |-> "Unauthorized"]),
               <<>>, <<>>)
    ELSE IF updateWorkoutSchemaErrors(input) # {}
    THEN Ended(store,
               Return([success |-> FALSE, error |-> "Invalid input",
                       details |-> updateWorkoutSchemaErrors(input)]),
               <<>>, <<>>)
    ELSE updateWorkoutTry(store, updateWorkoutSchemaData(input), userId,
                          clock, fault)

----------------------------------------------------------------------------
(* createWorkoutAction(formData): src/app/dashboard (actions.ts).          *)
(* formData.get(k) is null for a field the form does not carry.            *)

IsoString(ms) == [t |-> "string", iso |-> ms]   \* Date.toISOString()

formDataGet(formData, k) == Col(formData, k, Null)

(* !v for a string or null *)
Falsy(v) == v = Null \/ v = Str("")

(* new Date(dateStr) *)
parseDate(dateStr) ==
    IF "iso" \in DOMAIN dateStr THEN DateOf(dateStr.iso) ELSE InvalidDate

dashboardInsertValues(userId, name, startedAt) ==
    [userId |-> userId,
     name |-> IF Falsy(name) THEN Null ELSE name,
     startedAt |-> startedAt,
     completedAt |-> Null]

dashboardCreateWorkoutAction(store, userId, formData, newId, clock, fault) ==
    LET name == formDataGet(formData, "name")
        dateStr == formDataGet(formData, "date")
        startedAt == parseDate(dateStr)
        row == insertedRow(dashboardInsertValues(userId, name, startedAt),
                           newId, clock)
    IN  IF userId = NoUser
        THEN Ended(store, Throw("Unauthorized"), <<>>, <<>>)
        ELSE IF Falsy(dateStr)
        THEN Ended(store, Throw("Date is required"), <<>>, <<>>)
        ELSE IF fault = "store" \/ ~ IsValidDate(startedAt)
        THEN Ended(store, Throw(StoreErrorText), <<>>, <<"db.insert">>)
        ELSE IF fault = "revalidatePath1"
        THEN Ended(store \cup {row}, Throw(RevalidateErrorText), <<>>,
                   <<"db.insert">>)
        ELSE Ended(store \cup {row},
                   Return([success |-> TRUE, workoutId |-> row.id]),
                   <<DashboardPath>>, <<"db.insert">>)

----------------------------------------------------------------------------
(* Pages: server components that read through the query layer *)

Redirect(to) == [kind |-> "redirect", to |-> to]
Render(props) == [kind |-> "render", props |-> props]
Http404 == [kind |-> "notFound"]
UuidErrorText == "invalid input syntax for type uuid"

(* mutant: the page reads as the workout's owner, whoever asks *)
EditWorkoutPageQuery_AsOwner(store, userId, workoutId) ==
    [workoutId |-> workoutId,
     userId |-> IF \E row \in store : row.id = workoutId
                THEN (CHOOSE row \in store : row.id = workoutId).userId
                ELSE userId]

(* getUserWorkout(workoutId, userId): the arguments the page passes *)
EditWorkoutPageQuery(store, userId, workoutId) ==
    [workoutId |-> workoutId, userId |-> userId]

(* src/app/dashboard/workout/[workoutId]/page.tsx *)
EditWorkoutPage(store, userId, workoutId) ==
    LET query == EditWorkoutPageQuery(store, userId, workoutId)
        workout == getUserWorkout(store, query.workoutId, query.userId)
    IN  IF userId = NoUser
        THEN Ended(store, Redirect("/sign-in"), <<>>, <<>>)
        ELSE IF ~ IsUuidSyntax(workoutId)
        THEN Ended(store, Throw(UuidErrorText), <<>>, <<"getUserWorkout">>)
        ELSE IF workout = NotFound
        THEN Ended(store, Http404, <<>>, <<"getUserWorkout">>)
        ELSE Ended(store,
                   Render([workoutId |-> workout.id,
                           initialName |-> workout.name,
                           initialStartedAt |-> workout.startedAt]),
                   <<>>, <<"getUserWorkout">>)

(* src/app/dashboard/page.tsx; listing is one of getUserWorkouts' results *)
DashboardPage(store, userId, listing) ==
    IF userId = NoUser
    THEN Ended(store, Redirect("/sign-in"), <<>>, <<>>)
    ELSE Ended(store, Render([workouts |-> listing]), <<>>, <<"getUserWorkouts">>)

(* src/app/dashboard/workout/new/page.tsx *)
NewWorkoutPage(store, userId) ==
    IF userId = NoUser
    THEN Ended(store, Redirect("/sign-in"), <<>>, <<>>)
    ELSE Ended(store, Render([form |-> "NewWorkoutForm"]), <<>>, <<>>)

----------------------------------------------------------------------------
(* Inputs the requests are drawn from *)

NameInputs == {Null, Str(""), Str(Pad(NameMax)), Str(Pad(NameMax + 1))}
ValidNames == {Null, Str(Pad(NameMax))}
IdInputs == Uuids \cup {UnusedUuid, NotAUuid}

(* an object with the keys whose value is given; Absent marks an omitted key *)
Absent == [t |-> "absent"]
Obj(fields) == [k \in {f \in DOMAIN fields : fields[f] # Absent} |-> fields[k]]

CreateInputs ==
    {[name |-> n, startedAt |-> d] : n \in NameInputs, d \in Dates \cup {InvalidDate}}
    \cup
    {[name |-> n, startedAt |-> d, userId |-> u] :
        n \in {Null}, d \in Dates, u \in Users}
    \cup
    {[startedAt |-> d] : d \in Dates}

(* the fields of an update besides workoutId *)
UpdatePatches ==
    {Obj([name |-> n, startedAt |-> s, completedAt |-> c]) :
        n \in ValidNames \cup {Absent},
        s \in Dates \cup {Absent},
        c \in Dates \cup {Null, Absent}}
    \cup
    {[name |-> Str("")], [name |-> Str(Pad(NameMax + 1))],
     [startedAt |-> InvalidDate], [startedAt |-> Null],
     [completedAt |-> InvalidDate]}
    \cup
    {[userId |-> u] : u \in Users}
    \cup
    {[id |-> i] : i \in Uuids}

UpdateInputs ==
    {Merge([workoutId |-> w], patch) :
        w \in Uuids \cup {UnusedUuid}, patch \in UpdatePatches}
    \cup
    {[workoutId |-> NotAUuid], [name |-> Null]}

FormDataInputs ==
    {Obj([name |-> n, date |-> d]) :
        n \in NameInputs \cup {Absent},
        d \in {IsoString(ms) : ms \in Times} \cup {Str(""), Str("tomorrow"), Absent}}

----------------------------------------------------------------------------
(* Client components: the submit handlers *)

(* NewWorkoutForm's useState(false), useState(null); pushed: router.push ran *)
NewWorkoutFormState == [loading |-> FALSE, error |-> Null, pushed |-> FALSE]

(* DashboardClient's useState(false) for isDialogOpen and for isSubmitting *)
DashboardClientState == [isDialogOpen |-> FALSE, isSubmitting |-> FALSE]

(* handleSubmit after the await: a rejected call rejects handleSubmit at the *)
(* await, and nothing after it runs                                         *)
handleSubmitSettled(form, outcome) ==
    IF outcome.kind = "throw"
    THEN form
    ELSE IF ~ outcome.value.success
         THEN [form EXCEPT !.loading = FALSE, !.error = Str(outcome.value.error)]
         ELSE [form EXCEPT !.loading = FALSE, !.pushed = TRUE]

(* mutant: no finally block *)
handleCreateWorkoutSettled_NoFinally(client, outcome) ==
    IF outcome.kind = "throw"
    THEN client
    ELSE [client EXCEPT !.isDialogOpen = FALSE, !.isSubmitting = FALSE]

(* handleCreateWorkout after the await: try, catch, finally *)
handleCreateWorkoutSettled(client, outcome) ==
    IF outcome.kind = "throw"
    THEN [client EXCEPT !.isSubmitting = FALSE]
    ELSE [client EXCEPT !.isDialogOpen = FALSE, !.isSubmitting = FALSE]

----------------------------------------------------------------------------
(* The state machine *)

(* last: the call (op, the session's userId, the workoutId and the userId  *)
(* its input carried, the date a listing was asked for, the fault that    *)
(* struck), the table before it, and what it did                          *)
NoCall ==
    [op |-> "none", userId |-> NoUser, target |-> NotAUuid, claimed |-> NoUser,
     date |-> Null, fault |-> "none", before |-> {}, outcome |-> Return(Null),
     revalidated |-> <<>>, queried |-> <<>>]

Called(op, userId, input, fault, ended) ==
    [op |-> op, userId |-> userId,
     target |-> Col(input, "workoutId", NotAUuid),
     claimed |-> Col(input, "userId", NoUser),
     date |-> Col(input, "byDate", Null),
     fault |-> fault, before |-> workouts, outcome |-> ended.outcome,
     revalidated |-> ended.revalidated, queried |-> ended.queried]

(* defaultRandom(): an id no row has *)
(* defaultRandom() never repeats an id; ids are compared for equality    *)
(* only, so the unused id with the least number stands for any of them.  *)
FreeIds == Uuids \ {row.id : row \in workouts}
NewIds == {i \in FreeIds : \A j \in FreeIds : i[2] <= j[2]}

(* a fault strikes only where the store or the cache is reached *)
FaultsAt(reached) == IF reached THEN Faults ELSE {"none"}

Idle == last = NoCall

Committed(store) == IF store = workouts THEN steps ELSE steps + 1

Init ==
    /\ workouts = {}
    /\ exercises = {}
    /\ workoutExercises = {}
    /\ sets = {}
    /\ statements = {}
    /\ now = 0
    /\ steps = 0
    /\ last = NoCall
    /\ newWorkoutForm = NewWorkoutFormState
    /\ dashboardClient = DashboardClientState

(* a millisecond passes *)
Tick ==
    /\ Idle
    /\ now < LastTime
    /\ now' = now + 1
    /\ UNCHANGED <<newWorkoutForm, dashboardClient, workouts, nested, statements, steps, last>>

(* the answer reaches the caller *)
Respond ==
    /\ ~ Idle
    /\ last' = NoCall
    /\ UNCHANGED <<newWorkoutForm, dashboardClient, workouts, nested, statements, now, steps>>

CreateWorkoutActionCall ==
    /\ Idle /\ steps < MaxSteps
    /\ \E userId \in Sessions, input \in CreateInputs, newId \in NewIds :
        \E fault \in FaultsAt(userId # NoUser /\ createWorkoutSchemaErrors(input) = {}) :
            LET ended == createWorkoutAction(workouts, userId, input, newId, now, fault)
            IN  /\ workouts' = ended.store
                /\ steps' = Committed(ended.store)
                /\ last' = Called("createWorkoutAction", userId, input, fault, ended)
    /\ UNCHANGED <<newWorkoutForm, dashboardClient, nested, statements, now>>

UpdateWorkoutActionCall ==
    /\ Idle /\ steps < MaxSteps
    /\ \E userId \in Sessions, input \in UpdateInputs :
        \E fault \in FaultsAt(userId # NoUser /\ updateWorkoutSchemaErrors(input) = {}) :
            LET ended == updateWorkoutAction(workouts, userId, input, now, fault)
            IN  /\ workouts' = ended.store
                /\ steps' = Committed(ended.store)
                /\ last' = Called("updateWorkoutAction", userId, input, fault, ended)
    /\ UNCHANGED <<newWorkoutForm, dashboardClient, nested, statements, now>>

DashboardCreateWorkoutActionCall ==
    /\ Idle /\ steps < MaxSteps
    /\ \E userId \in Sessions, formData \in FormDataInputs, newId \in NewIds :
        \E fault \in FaultsAt(userId # NoUser) :
            LET ended == dashboardCreateWorkoutAction(workouts, userId, formData,
                                                      newId, now, fault)
            IN  /\ workouts' = ended.store
                /\ steps' = Committed(ended.store)
                /\ last' = Called("dashboardCreateWorkoutAction", userId, formData,
                                  fault, ended)
    /\ UNCHANGED <<newWorkoutForm, dashboardClient, nested, statements, now>>

EditWorkoutPageRequest ==
    /\ Idle
    /\ \E userId \in Sessions, workoutId \in IdInputs :
        LET ended == EditWorkoutPage(workouts, userId, workoutId)
        IN  last' = Called("EditWorkoutPage", userId, [workoutId |-> workoutId],
                           "none", ended)
    /\ UNCHANGED <<newWorkoutForm, dashboardClient, workouts, nested, statements, now, steps>>

DashboardPageRequest ==
    /\ Idle
    /\ \E userId \in Sessions :
        \E listing \in getUserWorkouts(workouts, userId) :
            LET ended == DashboardPage(workouts, userId, listing)
            IN  last' = Called("DashboardPage", userId, <<>>, "none", ended)
    /\ UNCHANGED <<newWorkoutForm, dashboardClient, workouts, nested, statements, now, steps>>

Next ==
    \/ Tick
    \/ Respond
    \/ CreateWorkoutActionCall
    \/ UpdateWorkoutActionCall
    \/ DashboardCreateWorkoutActionCall
    \/ EditWorkoutPageRequest
    \/ DashboardPageRequest

Spec == Init /\ [][Next]_vars

----------------------------------------------------------------------------
(* The three protected pages, over tables that createWorkoutAction fills *)

NewWorkoutPageRequest ==
    /\ Idle
    /\ \E userId \in Sessions :
        LET ended == NewWorkoutPage(workouts, userId)
        IN  last' = Called("NewWorkoutPage", userId, <<>>, "none", ended)
    /\ UNCHANGED <<newWorkoutForm, dashboardClient, workouts, nested, statements, now, steps>>

NextPages ==
    \/ Tick
    \/ Respond
    \/ CreateWorkoutActionCall
    \/ EditWorkoutPageRequest
    \/ DashboardPageRequest
    \/ NewWorkoutPageRequest

SpecPages == Init /\ [][NextPages]_vars

----------------------------------------------------------------------------
(* The actions that write, without the pages *)

NextGateway ==
    \/ Tick
    \/ Respond
    \/ CreateWorkoutActionCall
    \/ UpdateWorkoutActionCall
    \/ DashboardCreateWorkoutActionCall

SpecGateway == Init /\ [][NextGateway]_vars

----------------------------------------------------------------------------
(* The submit handlers of the two client components, each awaiting its     *)
(* server action. A call of a server action from the browser is a request  *)
(* over the network: it rejects when the request fails, as it does when    *)
(* the action throws.                                                      *)

(* NewWorkoutForm.handleSubmit up to the await; the button is disabled     *)
(* while loading, and the form is gone once router.push has run           *)
HandleSubmit ==
    /\ Idle /\ steps < MaxSteps
    /\ ~ newWorkoutForm.loading /\ ~ newWorkoutForm.pushed
    /\ \E userId \in Sessions, typed \in {"", Pad(NameMax)}, date \in Dates,
          newId \in NewIds, fetch \in {"none", "failed"} :
        LET input == [name |-> IF typed = "" THEN Null ELSE Str(typed),
                      startedAt |-> date]
        IN  \E fault \in FaultsAt(fetch = "none" /\ userId # NoUser) :
                LET ended == IF fetch = "failed"
                             THEN Ended(workouts, Throw("fetch failed"), <<>>, <<>>)
                             ELSE createWorkoutAction(workouts, userId, input,
                                                      newId, now, fault)
                IN  /\ workouts' = ended.store
                    /\ steps' = Committed(ended.store)
                    /\ last' = Called("createWorkoutAction", userId, input,
                                      fault, ended)
    /\ newWorkoutForm' = [newWorkoutForm EXCEPT !.loading = TRUE, !.error = Null]
    /\ UNCHANGED <<dashboardClient, nested, statements, now>>

(* the awaited call of handleSubmit settles *)
HandleSubmitSettle ==
    /\ last.op = "createWorkoutAction"
    /\ newWorkoutForm' = handleSubmitSettled(newWorkoutForm, last.outcome)
    /\ last' = NoCall
    /\ UNCHANGED <<dashboardClient, workouts, nested, statements, now, steps>>

(* the dialog's onOpenChange *)
DialogOpenChange ==
    /\ Idle
    /\ dashboardClient' = [dashboardClient EXCEPT !.isDialogOpen = ~ @]
    /\ UNCHANGED <<newWorkoutForm, workouts, nested, statements, now, steps, last>>

(* DashboardClient.handleCreateWorkout up to the await; the form is in the *)
(* open dialog and its button is disabled while isSubmitting              *)
HandleCreateWorkout ==
    /\ Idle /\ steps < MaxSteps
    /\ dashboardClient.isDialogOpen /\ ~ dashboardClient.isSubmitting
    /\ \E userId \in Sessions, typed \in {"", Pad(NameMax)}, selectedDate \in Times,
          newId \in NewIds, fetch \in {"none", "failed"} :
        LET formData == [name |-> Str(typed), date |-> IsoString(selectedDate)]
        IN  \E fault \in FaultsAt(fetch = "none" /\ userId # NoUser) :
                LET ended == IF fetch = "failed"
                             THEN Ended(workouts, Throw("fetch failed"), <<>>, <<>>)
                             ELSE dashboardCreateWorkoutAction(workouts, userId,
                                      formData, newId, now, fault)
                IN  /\ workouts' = ended.store
                    /\ steps' = Committed(ended.store)
                    /\ last' = Called("dashboardCreateWorkoutAction", userId,
                                      formData, fault, ended)
    /\ dashboardClient' = [dashboardClient EXCEPT !.isSubmitting = TRUE]
    /\ UNCHANGED <<newWorkoutForm, nested, statements, now>>

(* the awaited call of handleCreateWorkout settles *)
HandleCreateWorkoutSettle ==
    /\ last.op = "dashboardCreateWorkoutAction"
    /\ dashboardClient' = handleCreateWorkoutSettled(dashboardClient, last.outcome)
    /\ last' = NoCall
    /\ UNCHANGED <<newWorkoutForm, workouts, nested, statements, now, steps>>

NextForms ==
    \/ HandleSubmit
    \/ HandleSubmitSettle
    \/ DialogOpenChange
    \/ HandleCreateWorkout
    \/ HandleCreateWorkoutSettle

(* a settled promise's continuation is a microtask: the event loop runs it *)
SpecForms ==
    /\ Init /\ [][NextForms]_vars
    /\ WF_vars(HandleSubmitSettle)
    /\ WF_vars(HandleCreateWorkoutSettle)

----------------------------------------------------------------------------
(* The listing by date, applied to tables whose rows started around the   *)
(* two ends of a day: the last millisecond before it, its first, its      *)
(* noon, its last millisecond and the first of the day after.             *)

TheDay == DateOf(MsPerDay)
Noon == DateOf(TheDay.v + MsPerDay \div 2)
DayBefore == DateOf(TheDay.v - 1)
DayAfter == DateOf(TheDay.v + MsPerDay)
DayEdges ==
    {DayBefore, TheDay, Noon, DateOf(DayAfter.v - 1), DayAfter}

(* rows createWorkout and updateWorkout can have left *)
ByDateRows(id) ==
    {[id |-> id, userId |-> u, name |-> Null, startedAt |-> s, completedAt |-> c,
      createdAt |-> w, updatedAt |-> w] :
        u \in Users, s \in DayEdges, c \in {Null, Noon}, w \in {Noon, DayAfter}}

RECURSIVE ByDateTables(_)
ByDateTables(n) ==
    IF n = 0 THEN {{}}
    ELSE ByDateTables(n - 1) \cup
         {table \cup {row} :
             table \in {t \in ByDateTables(n - 1) : Cardinality(t) = n - 1},
             row \in ByDateRows(<<"uuid", n>>)}

ByDateInputs == {DayBefore, TheDay, Noon, DateOf(DayAfter.v - 1), DayAfter}

InitByDate ==
    /\ workouts \in ByDateTables(MaxWorkouts)
    /\ exercises = {}
    /\ workoutExercises = {}
    /\ sets = {}
    /\ statements = {}
    /\ now = DayAfter.v
    /\ steps = 0
    /\ last = NoCall
    /\ newWorkoutForm = NewWorkoutFormState
    /\ dashboardClient = DashboardClientState

GetUserWorkoutsByDateCall ==
    /\ Idle
    /\ \E userId \in Users, date \in ByDateInputs :
        \E listing \in getUserWorkoutsByDate(workouts, userId, date) :
            last' = Called("getUserWorkoutsByDate", userId, [byDate |-> date], "none",
                           Ended(workouts, Return(listing), <<>>,
                                 <<"getUserWorkoutsByDate">>))
    /\ UNCHANGED <<newWorkoutForm, dashboardClient, workouts, nested, statements, now, steps>>

NextByDate ==
    \/ GetUserWorkoutsByDateCall
    \/ Respond

SpecByDate == InitByDate /\ [][NextByDate]_vars

----------------------------------------------------------------------------
(* The three reads, applied to a workout of each user with exercises and  *)
(* sets attached. Nothing in the repository inserts into workout_exercises*)
(* or sets, so their rows are drawn: any workout of the two, any order,   *)
(* any set number, whatever the order of their ids.                       *)

NestedWorkouts ==
    {[id |-> <<"uuid", 1>>, userId |-> "user_A", name |-> Null,
      startedAt |-> DateOf(0), completedAt |-> Null,
      createdAt |-> DateOf(0), updatedAt |-> DateOf(0)],
     [id |-> <<"uuid", 2>>, userId |-> "user_B", name |-> Null,
      startedAt |-> DateOf(0), completedAt |-> Null,
      createdAt |-> DateOf(0), updatedAt |-> DateOf(0)]}

(* the catalog: one exercise the workouts use, one no workout uses *)
ExerciseCatalog ==
    {[id |-> <<"uuid", e>>, userId |-> "user_A", name |-> Str("x"),
      createdAt |-> DateOf(0), updatedAt |-> DateOf(0)] : e \in {1, 2}}

WorkoutExerciseRows(id) ==
    {[id |-> id, workoutId |-> w.id, exerciseId |-> <<"uuid", 1>>, order |-> o] :
        w \in NestedWorkouts, o \in {0, 1}}

SetRows(id) ==
    {[id |-> id, workoutExerciseId |-> <<"uuid", e>>, setNumber |-> n] :
        e \in {1, 2}, n \in {1, 2}}

(* the tables of n rows or fewer, row i taken from rows[<<"uuid", i>>] *)
RECURSIVE TablesOf(_, _)
TablesOf(rows, n) ==
    IF n = 0 THEN {{}}
    ELSE TablesOf(rows, n - 1) \cup
         {table \cup {row} :
             table \in {t \in TablesOf(rows, n - 1) : Cardinality(t) = n - 1},
             row \in rows[<<"uuid", n>>]}

InitNested ==
    /\ workouts = NestedWorkouts
    /\ exercises = ExerciseCatalog
    /\ workoutExercises \in TablesOf([id \in IdsUpTo(MaxNested) |-> WorkoutExerciseRows(id)],
                                    MaxNested)
    /\ sets \in TablesOf([id \in IdsUpTo(MaxNested) |-> SetRows(id)], MaxNested)
    \* .references(() => workoutExercises.id): a set's exercise is in the table
    /\ \A row \in sets : \E exercise \in workoutExercises : exercise.id = row.workoutExerciseId
    /\ statements = {}
    /\ now = 0
    /\ steps = 0
    /\ last = NoCall
    /\ newWorkoutForm = NewWorkoutFormState
    /\ dashboardClient = DashboardClientState

GetUserWorkoutRead ==
    /\ Idle
    /\ \E userId \in Users, workoutId \in {w.id : w \in workouts} :
        \E found \in findFirstWithRelations(workouts, workoutExercises, sets,
                                            workoutId, userId) :
            last' = Called("getUserWorkout", userId, [workoutId |-> workoutId], "none",
                           Ended(workouts, Return(found), <<>>, <<"getUserWorkout">>))
    /\ UNCHANGED <<newWorkoutForm, dashboardClient, workouts, nested, statements, now, steps>>

GetUserWorkoutsRead ==
    /\ Idle
    /\ \E userId \in Users :
        \E found \in findManyWithRelations(workouts, workoutExercises, sets, userId) :
            last' = Called("getUserWorkouts", userId, <<>>, "none",
                           Ended(workouts, Return(found), <<>>, <<"getUserWorkouts">>))
    /\ UNCHANGED <<newWorkoutForm, dashboardClient, workouts, nested, statements, now, steps>>

GetUserWorkoutsByDateRead ==
    /\ Idle
    /\ \E userId \in Users, date \in {DateOf(0)} :
        \E found \in findManyByDateWithRelations(workouts, workoutExercises, sets,
                                                 userId, date) :
            last' = Called("getUserWorkoutsByDate", userId, [byDate |-> date], "none",
                           Ended(workouts, Return(found), <<>>,
                                 <<"getUserWorkoutsByDate">>))
    /\ UNCHANGED <<newWorkoutForm, dashboardClient, workouts, nested, statements, now, steps>>

NextNested ==
    \/ GetUserWorkoutRead
    \/ GetUserWorkoutsRead
    \/ GetUserWorkoutsByDateRead
    \/ Respond

SpecNested == InitNested /\ [][NextNested]_vars

----------------------------------------------------------------------------
(* DashboardClient's filter (src/app/dashboard/dashboard-client.tsx),     *)
(* applied to the listing the page passes it.  The date fields are those  *)
(* of the proleptic Gregorian calendar, local time being UTC as for       *)
(* setHours.  Instants lie within 24 days of the epoch, the reach of      *)
(* 32-bit milliseconds: a day of January 1970 and the day of the same     *)
(* number in December 1969.                                               *)

YearMonthDay(d) ==
    LET days == (d.v - (d.v % MsPerDay)) \div MsPerDay
        z == days + 719468
        era == (z - (z % 146097)) \div 146097
        doe == z - era * 146097
        yoe == (doe - doe \div 1460 + doe \div 36524 - doe \div 146096) \div 365
        doy == doe - (365 * yoe + yoe \div 4 - yoe \div 100)
        mp == (5 * doy + 2) \div 153
        m == IF mp < 10 THEN mp + 3 ELSE mp - 9
    IN  [year |-> yoe + era * 400 + (IF m <= 2 THEN 1 ELSE 0),
         month |-> m - 1,
         date |-> doy - (153 * mp + 2) \div 5 + 1]

getDate(d) == YearMonthDay(d).date
getMonth(d) == YearMonthDay(d).month
getFullYear(d) == YearMonthDay(d).year

(* mutant: the day of the month compared alone *)
filteredWorkouts_DateOnly(listing, selectedDate) ==
    LET keep(workout) == getDate(workout.startedAt) = getDate(selectedDate)
    IN  IF selectedDate # Null THEN SelectSeq(listing, keep) ELSE listing

(* selectedDate ? workouts.filter(...) : workouts; undefined is Null here *)
filteredWorkouts(listing, selectedDate) ==
    LET keep(workout) ==
            /\ getDate(workout.startedAt) = getDate(selectedDate)
            /\ getMonth(workout.startedAt) = getMonth(selectedDate)
            /\ getFullYear(workout.startedAt) = getFullYear(selectedDate)
    IN  IF selectedDate # Null THEN SelectSeq(listing, keep) ELSE listing

(* 10 January 1970: its first millisecond, its noon, its last, the last  *)
(* of the day before, the first of the day after; noon of 10 December    *)
(* 1969                                                                  *)
ClientInstants ==
    {DateOf(9 * MsPerDay), DateOf(9 * MsPerDay + MsPerDay \div 2),
     DateOf(10 * MsPerDay - 1), DateOf(9 * MsPerDay - 1), DateOf(10 * MsPerDay),
     DateOf(MsPerDay \div 2 - 22 * MsPerDay)}

ClientRows(id) ==
    {[id |-> id, userId |-> u, name |-> Null, startedAt |-> s, completedAt |-> Null,
      createdAt |-> s, updatedAt |-> s] : u \in Users, s \in ClientInstants}

InitClient ==
    /\ workouts \in TablesOf([id \in Uuids |-> ClientRows(id)], MaxWorkouts)
    /\ exercises = {}
    /\ workoutExercises = {}
    /\ sets = {}
    /\ statements = {}
    /\ now = 10 * MsPerDay
    /\ steps = 0
    /\ last = NoCall
    /\ newWorkoutForm = NewWorkoutFormState
    /\ dashboardClient = DashboardClientState

(* the page hands the listing to the client, which shows the selected day *)
DashboardClientRender ==
    /\ Idle
    /\ \E userId \in Users, selectedDate \in ClientInstants \cup {Null} :
        \E listing \in getUserWorkouts(workouts, userId) :
            last' = Called("DashboardClient", userId, [byDate |-> selectedDate], "none",
                           Ended(workouts,
                                 Return(filteredWorkouts(listing, selectedDate)),
                                 <<>>, <<"getUserWorkouts">>))
    /\ UNCHANGED <<newWorkoutForm, dashboardClient, workouts, nested, statements, now, steps>>

NextClient ==
    \/ DashboardClientRender
    \/ Respond

SpecClient == InitClient /\ [][NextClient]_vars

----------------------------------------------------------------------------
(* The edits of one workout by its owner, with updates in flight at the   *)
(* same time. updateWorkoutAction authenticates, validates and builds the *)
(* update (reading new Date()) when it is called; the store executes the  *)
(* one UPDATE statement later, at once, against the table as it is then.  *)
(* statements keeps every statement sent: order is 0 while it is in       *)
(* flight and its place in the commit order afterwards.                   *)

Owner == "user_A"
TheWorkout == <<"uuid", 1>>

EditsCreateInputs == {[name |-> Str(Pad(NameMax)), startedAt |-> DateOf(LastTime)]}

EditsPatches ==
    {<<>>,
     [name |-> Null],
     [completedAt |-> DateOf(0)],
     [completedAt |-> Null],
     [name |-> Null, completedAt |-> DateOf(LastTime)]}

EditsUpdateInputs == {Merge([workoutId |-> TheWorkout], patch) : patch \in EditsPatches}

(* two requests at a time *)
InFlight == {st \in statements : st.order = 0}
CommittedStatements == statements \ InFlight

Statement(kind, userId, id, input, order) ==
    [n |-> Cardinality(statements) + 1, kind |-> kind, userId |-> userId, id |-> id,
     input |-> input, clock |-> now, order |-> order]

NextOrder == Cardinality(CommittedStatements) + 1

EditsCreate ==
    /\ Idle
    /\ workouts = {}
    /\ Cardinality(statements) < MaxSteps + 1
    /\ \E input \in EditsCreateInputs :
        LET ended == createWorkoutAction(workouts, Owner, input, TheWorkout, now, "none")
        IN  /\ workouts' = ended.store
            /\ statements' = statements \cup
                  {Statement("insert", Owner, TheWorkout, input, NextOrder)}
            /\ last' = Called("createWorkoutAction", Owner, input, "none", ended)
    /\ UNCHANGED <<newWorkoutForm, dashboardClient, nested, now, steps>>

(* the action is called: the statement is built and sent.  The id is    *)
(* the store's defaultRandom(): a caller has it once the insert returned *)
UpdateSend ==
    /\ Idle
    /\ Cardinality(statements) < MaxSteps + 1
    /\ Cardinality(InFlight) < 2
    /\ \E input \in EditsUpdateInputs :
        /\ \E row \in workouts : row.id = input.workoutId
        /\ updateWorkoutSchemaErrors(input) = {}
        /\ statements' = statements \cup
              {Statement("update", Owner, input.workoutId, input, 0)}
    /\ UNCHANGED <<newWorkoutForm, dashboardClient, workouts, nested, now, steps, last>>

(* the store executes a statement in flight, and the action returns *)
UpdateCommit ==
    /\ Idle
    /\ \E st \in InFlight :
        LET ended == updateWorkoutAction(workouts, st.userId, st.input, st.clock, "none")
        IN  /\ workouts' = ended.store
            /\ statements' = (statements \ {st})
                                \cup {[st EXCEPT !.order = NextOrder]}
            /\ last' = Called("updateWorkoutAction", st.userId, st.input, "none", ended)
    /\ UNCHANGED <<newWorkoutForm, dashboardClient, nested, now, steps>>

NextEdits ==
    \/ EditsCreate
    \/ UpdateSend
    \/ UpdateCommit
    \/ Tick
    \/ Respond

SpecEdits == Init /\ [][NextEdits]_vars

----------------------------------------------------------------------------
(* The store's foreign keys: src/db/schema.ts.  No function of the         *)
(* repository deletes a row or inserts into workout_exercises or sets, so  *)
(* the statements are the store's own: an insert is refused when a row it  *)
(* references is missing, a delete removes the rows declared               *)
(* onDelete: 'cascade' with it, and is refused when a row referencing it   *)
(* has no onDelete action.                                                 *)

Tables(workoutRows, catalog, exerciseRows, setRows) ==
    [workouts |-> workoutRows, exercises |-> catalog,
     workoutExercises |-> exerciseRows, sets |-> setRows]

Stored == Tables(workouts, exercises, workoutExercises, sets)

ForeignKeyViolation == "violates foreign key constraint"
Done(tables) == [tables |-> tables, outcome |-> "ok"]
Refused(tables) == [tables |-> tables, outcome |-> ForeignKeyViolation]

(* mutant: the sets' reference without onDelete: 'cascade', unchecked *)
cascadeSets_None(setRows, workoutExerciseIds) ==
    {row \in setRows : row.workoutExerciseId \notin {}}

(* sets.workoutExerciseId: references(workoutExercises.id, cascade) *)
cascadeSets(setRows, workoutExerciseIds) ==
    {row \in setRows : row.workoutExerciseId \notin workoutExerciseIds}

(* workoutExercises.workoutId: references(workouts.id, cascade) *)
cascadeWorkoutExercises(exerciseRows, workoutIds) ==
    {row \in exerciseRows : row.workoutId \notin workoutIds}

deleteWorkoutExerciseRows(tables, ids) ==
    Tables(tables.workouts, tables.exercises,
           {row \in tables.workoutExercises : row.id \notin ids},
           cascadeSets(tables.sets, ids))

deleteWorkoutRow(tables, id) ==
    LET kept == cascadeWorkoutExercises(tables.workoutExercises, {id})
        gone == {row.id : row \in tables.workoutExercises \ kept}
        after == deleteWorkoutExerciseRows(tables, gone)
    IN  Done(Tables({row \in tables.workouts : row.id # id}, after.exercises,
                    after.workoutExercises, after.sets))

deleteWorkoutExerciseRow(tables, id) == Done(deleteWorkoutExerciseRows(tables, {id}))

(* workoutExercises.exerciseId: references(exercises.id), no onDelete *)
deleteExerciseRow(tables, id) ==
    IF \E row \in tables.workoutExercises : row.exerciseId = id
    THEN Refused(tables)
    ELSE Done(Tables(tables.workouts, {row \in tables.exercises : row.id # id},
                     tables.workoutExercises, tables.sets))

deleteSetRow(tables, id) ==
    Done(Tables(tables.workouts, tables.exercises, tables.workoutExercises,
                {row \in tables.sets : row.id # id}))

insertWorkoutExerciseRow(tables, row) ==
    IF /\ \E workout \in tables.workouts : workout.id = row.workoutId
       /\ \E exercise \in tables.exercises : exercise.id = row.exerciseId
    THEN Done(Tables(tables.workouts, tables.exercises,
                     tables.workoutExercises \cup {row}, tables.sets))
    ELSE Refused(tables)

insertSetRow(tables, row) ==
    IF \E exercise \in tables.workoutExercises : exercise.id = row.workoutExerciseId
    THEN Done(Tables(tables.workouts, tables.exercises, tables.workoutExercises,
                     tables.sets \cup {row}))
    ELSE Refused(tables)

NestedIds == IdsUpTo(MaxNested)

(* defaultRandom(): the unused id with the least number stands for any *)
LeastFree(rows) ==
    {i \in NestedIds \ {row.id : row \in rows} :
        \A j \in NestedIds \ {row.id : row \in rows} : i[2] <= j[2]}

InitCascade ==
    /\ workouts = NestedWorkouts
    /\ exercises = ExerciseCatalog
    /\ workoutExercises = {}
    /\ sets = {}
    /\ statements = {}
    /\ now = 0
    /\ steps = 0
    /\ last = NoCall
    /\ newWorkoutForm = NewWorkoutFormState
    /\ dashboardClient = DashboardClientState

(* a statement reached the store: what it was, the tables before it *)
Stated(op, id, ended) ==
    /\ workouts' = ended.tables.workouts
    /\ exercises' = ended.tables.exercises
    /\ workoutExercises' = ended.tables.workoutExercises
    /\ sets' = ended.tables.sets
    /\ last' = [op |-> op, target |-> id, before |-> Stored, outcome |-> ended.outcome]
    /\ UNCHANGED <<newWorkoutForm, dashboardClient, statements, now, steps>>

DeleteWorkoutStatement ==
    \E id \in {row.id : row \in NestedWorkouts} :
        Stated("deleteWorkout", id, deleteWorkoutRow(Stored, id))

DeleteWorkoutExerciseStatement ==
    \E id \in NestedIds :
        Stated("deleteWorkoutExercise", id, deleteWorkoutExerciseRow(Stored, id))

DeleteExerciseStatement ==
    \E id \in {row.id : row \in ExerciseCatalog} :
        Stated("deleteExercise", id, deleteExerciseRow(Stored, id))

DeleteSetStatement ==
    \E id \in NestedIds : Stated("deleteSet", id, deleteSetRow(Stored, id))

InsertWorkoutExerciseStatement ==
    \E id \in LeastFree(workoutExercises),
       workoutId \in {row.id : row \in NestedWorkouts},
       exerciseId \in {row.id : row \in ExerciseCatalog} :
        Stated("insertWorkoutExercise", id,
               insertWorkoutExerciseRow(Stored,
                   [id |-> id, workoutId |-> workoutId, exerciseId |-> exerciseId,
                    order |-> 0]))

InsertSetStatement ==
    \E id \in LeastFree(sets), workoutExerciseId \in NestedIds :
        Stated("insertSet", id,
               insertSetRow(Stored,
                   [id |-> id, workoutExerciseId |-> workoutExerciseId,
                    setNumber |-> 1]))

NextCascade ==
    \/ DeleteWorkoutStatement
    \/ DeleteWorkoutExerciseStatement
    \/ DeleteExerciseStatement
    \/ DeleteSetStatement
    \/ InsertWorkoutExerciseStatement
    \/ InsertSetStatement

SpecCascade == InitCascade /\ [][NextCascade]_vars

----------------------------------------------------------------------------
(* Vocabulary of the properties *)

TypedActions == {"createWorkoutAction", "updateWorkoutAction"}
GatewayActions == TypedActions \cup {"dashboardCreateWorkoutAction"}

Unauthorized == Return([success |-> FALSE, error |-> "Unauthorized"])
NotFoundOrNotOwned ==
    Return([success |-> FALSE,
            error |-> "Workout not found or you do not have permission to edit it"])

Returned == last.outcome.kind = "return"
Succeeded == Returned /\ last.outcome.value # Null /\ last.outcome.value.success
FailedWith(error) ==
    /\ Returned
    /\ last.outcome.value # Null
    /\ ~ last.outcome.value.success
    /\ last.outcome.value.error = error

(* rows of a table that another user than userId owns under workoutId *)
ForeignRows(store, workoutId, userId) ==
    {row \in store : row.id = workoutId /\ row.userId # userId}
OwnRows(store, workoutId, userId) ==
    {row \in store : row.id = workoutId /\ row.userId = userId}

(* the data updateWorkoutAction can hand to updateWorkout *)
UpdateData ==
    {Omit(updateWorkoutSchemaData(input), {"workoutId"}) :
        input \in {i \in UpdateInputs : updateWorkoutSchemaErrors(i) = {}}}

WellFormedIds == Uuids \cup {UnusedUuid}

----------------------------------------------------------------------------
(* C1: a workout is returned by getUserWorkout only to its owner: for     *)
(* every stored workout w and every user B other than w's owner,          *)
(* getUserWorkout(w.id, B) is undefined, and whatever getUserWorkout      *)
(* returns is the stored row with the id and the userId asked for; the    *)
(* edit page, which reads through it, renders only the caller's own row.  *)
C1_OwnershipIsolation ==
    /\ Idle =>
        /\ \A w \in workouts : \A B \in Users \ {w.userId} :
              getUserWorkout(workouts, w.id, B) = NotFound
        /\ \A id \in WellFormedIds, B \in Users :
              LET got == getUserWorkout(workouts, id, B)
              IN  got # NotFound =>
                    got \in workouts /\ got.id = id /\ got.userId = B
    /\ last.op = "EditWorkoutPage" /\ last.outcome.kind = "render" =>
          \E row \in workouts :
              /\ row.id = last.target /\ row.userId = last.userId
              /\ last.outcome.props.workoutId = row.id
              /\ last.outcome.props.initialName = row.name

(* user B asked for the edit page of a workout user A owns, and got 404 *)
C1_Witness ==
    /\ last.op = "EditWorkoutPage"
    /\ last.userId \in Users
    /\ ForeignRows(workouts, last.target, last.userId) # {}
    /\ last.queried = <<"getUserWorkout">>
    /\ last.outcome = Http404

----------------------------------------------------------------------------
(* C2: updateWorkout called by a user who does not own the workout        *)
(* returns undefined and leaves the table as it was, whatever the patch   *)
(* and whatever the clock; and any update leaves every row but the one    *)
(* matching both id and userId exactly as it was.                         *)
C2_UpdateFrame ==
    /\ Idle =>
        \A w \in workouts : \A B \in Users \ {w.userId} :
            \A data \in UpdateData, clock \in Times :
                updateWorkout(workouts, w.id, data, B, clock)
                    = [store |-> workouts, workout |-> NotFound]
    /\ last.op = "updateWorkoutAction" =>
        LET own == OwnRows(last.before, last.target, last.userId)
        IN  /\ last.before \ own \subseteq workouts
            /\ \A row \in workouts \ last.before :
                  row.id = last.target /\ row.userId = last.userId
            /\ Cardinality(workouts) = Cardinality(last.before)
            /\ own = {} => workouts = last.before

(* user B's update reached updateWorkout for a workout of user A at a     *)
(* later instant than A's row was written, and the table is unchanged     *)
C2_Witness ==
    /\ last.op = "updateWorkoutAction"
    /\ last.queried = <<"updateWorkout">>
    /\ last.fault = "none"
    /\ \E row \in ForeignRows(last.before, last.target, last.userId) :
          row.updatedAt.v < now
    /\ workouts = last.before
    /\ last.outcome = NotFoundOrNotOwned

----------------------------------------------------------------------------
(* C3: a workout another user owns cannot be told from one that does not  *)
(* exist: with the other users' rows of an id taken out of the table,     *)
(* getUserWorkout, updateWorkout, updateWorkoutAction (result and         *)
(* revalidated paths) and the edit page answer the caller exactly as they *)
(* do with those rows in it.                                              *)
Hidden(workoutId, userId) ==
    workouts \ ForeignRows(workouts, workoutId, userId)

C3_NotFoundNotOwnedEquivalence ==
    Idle =>
        \A B \in Users, id \in Uuids :
            ForeignRows(workouts, id, B) # {} =>
                /\ getUserWorkout(workouts, id, B)
                      = getUserWorkout(Hidden(id, B), id, B)
                /\ EditWorkoutPage(workouts, B, id).outcome
                      = EditWorkoutPage(Hidden(id, B), B, id).outcome
                /\ \A data \in UpdateData :
                      updateWorkout(workouts, id, data, B, now).workout
                          = updateWorkout(Hidden(id, B), id, data, B, now).workout
                /\ \A patch \in UpdatePatches, fault \in Faults :
                      LET input == Merge([workoutId |-> id], patch)
                          seen == updateWorkoutAction(workouts, B, input, now, fault)
                          blind == updateWorkoutAction(Hidden(id, B), B, input,
                                                       now, fault)
                      IN  /\ seen.outcome = blind.outcome
                          /\ seen.revalidated = blind.revalidated
                          /\ seen.queried = blind.queried

(* a signed-in caller asked to update another user's workout and was     *)
(* answered as for an id no row has: not found, nothing revalidated       *)
C3_Witness ==
    /\ last.op = "updateWorkoutAction"
    /\ last.userId \in Users
    /\ ForeignRows(workouts, last.target, last.userId) # {}
    /\ last.outcome = NotFoundOrNotOwned
    /\ last.revalidated = <<>>
    /\ last.outcome =
          updateWorkoutAction(workouts, last.userId, [workoutId |-> UnusedUuid],
                              now, "none").outcome

----------------------------------------------------------------------------
(* C4: a row created by createWorkout / createWorkoutAction belongs to    *)
(* the user the session resolved, also when the input carries a userId:   *)
(* createWorkout sets userId after spreading the data, and the action     *)
(* hands it the session's userId.                                         *)
C4_OwnerFromSession ==
    /\ Idle =>
        \A userId \in Users, claimed \in Users, name \in ValidNames, d \in Dates :
            createWorkout(workouts,
                          [name |-> name, startedAt |-> d, userId |-> claimed],
                          userId, UnusedUuid, now).workout.userId = userId
    /\ last.op \in {"createWorkoutAction", "dashboardCreateWorkoutAction"} =>
        /\ \A row \in workouts \ last.before : row.userId = last.userId
        /\ last.op = "createWorkoutAction" /\ Succeeded =>
              /\ last.outcome.value.workout.userId = last.userId
              /\ last.outcome.value.workout \in workouts
    /\ \A row \in workouts : row.userId \in Users

(* createWorkoutAction succeeded on an input that named another user as   *)
(* owner *)
C4_Witness ==
    /\ last.op = "createWorkoutAction"
    /\ Succeeded
    /\ last.claimed \in Users \ {last.userId}
    /\ last.outcome.value.workout.userId = last.userId

----------------------------------------------------------------------------
(* C5: every server action called without a session returns               *)
(* {success: false, error: "Unauthorized"}, calls no query-layer function *)
(* and leaves the table unchanged.                                        *)
C5_UnauthorizedReturned ==
    last.op \in GatewayActions /\ last.userId = NoUser =>
        /\ last.outcome = Unauthorized
        /\ last.queried = <<>>
        /\ workouts = last.before

(* the same for the two typed actions, which do return it *)
C5_TypedUnauthorizedReturned ==
    last.op \in TypedActions /\ last.userId = NoUser =>
        /\ last.outcome = Unauthorized
        /\ last.queried = <<>>
        /\ workouts = last.before

----------------------------------------------------------------------------
(* C6: for a signed-in caller, createWorkoutAction and                    *)
(* updateWorkoutAction answer an input that is structurally invalid (a    *)
(* name of length 0 or above 100, a startedAt or completedAt that is no   *)
(* valid timestamp, a workoutId that is no uuid) with                     *)
(* {success: false, error: "Invalid input", details}, call no query-layer *)
(* function and leave the table unchanged.                                *)
BadName(input) ==
    /\ "name" \in DOMAIN input
    /\ input.name.t = "string"
    /\ (Len(input.name.v) = 0 \/ Len(input.name.v) > 100)

BadTimestamp(input, k) ==
    /\ k \in DOMAIN input
    /\ input[k] # Null
    /\ ~ (input[k].t = "date" /\ input[k].v \in Times)

BadWorkoutId(input) ==
    "workoutId" \notin DOMAIN input \/ input.workoutId \notin WellFormedIds

InvalidCreateInput(input) ==
    BadName(input) \/ BadTimestamp(input, "startedAt")

InvalidUpdateInput(input) ==
    \/ BadName(input)
    \/ BadTimestamp(input, "startedAt")
    \/ BadTimestamp(input, "completedAt")
    \/ BadWorkoutId(input)

RejectedAsInvalid(ended) ==
    /\ ended.outcome.kind = "return"
    /\ DOMAIN ended.outcome.value = {"success", "error", "details"}
    /\ ~ ended.outcome.value.success
    /\ ended.outcome.value.error = "Invalid input"
    /\ ended.outcome.value.details # {}
    /\ ended.queried = <<>>
    /\ ended.revalidated = <<>>
    /\ ended.store = workouts

C6_InvalidInputRejected ==
    /\ Idle =>
        \A userId \in Users, fault \in Faults :
            /\ \A input \in CreateInputs :
                  InvalidCreateInput(input) =>
                      RejectedAsInvalid(createWorkoutAction(workouts, userId, input,
                                                            UnusedUuid, now, fault))
            /\ \A input \in UpdateInputs :
                  InvalidUpdateInput(input) =>
                      RejectedAsInvalid(updateWorkoutAction(workouts, userId, input,
                                                            now, fault))
    /\ last.op \in TypedActions /\ FailedWith("Invalid input") =>
          last.queried = <<>> /\ workouts = last.before

(* a signed-in caller's update of a stored workout was rejected for its   *)
(* name, and the table is as before                                       *)
C6_Witness ==
    /\ last.op = "updateWorkoutAction"
    /\ last.userId \in Users
    /\ OwnRows(workouts, last.target, last.userId) # {}
    /\ FailedWith("Invalid input")
    /\ last.outcome.value.details = {"name"}
    /\ last.queried = <<>>
    /\ workouts = last.before

----------------------------------------------------------------------------
(* C7: when no row matches both id and userId, updateWorkout returns      *)
(* undefined (it does not throw), and updateWorkoutAction turns that into *)
(* {success: false, error: "Workout not found or you do not have          *)
(* permission to edit it"} and revalidates no path.                       *)
C7_NotFoundSignalled ==
    /\ Idle =>
        \A userId \in Users, id \in WellFormedIds, data \in UpdateData :
            OwnRows(workouts, id, userId) = {} =>
                updateWorkout(workouts, id, data, userId, now).workout = NotFound
    /\ last.op = "updateWorkoutAction" =>
        /\ (/\ last.queried = <<"updateWorkout">>
            /\ last.fault # "store"
            /\ OwnRows(last.before, last.target, last.userId) = {})
              => last.outcome = NotFoundOrNotOwned
        /\ last.outcome = NotFoundOrNotOwned =>
              /\ last.revalidated = <<>>
              /\ OwnRows(last.before, last.target, last.userId) = {}

(* an update of an id no row has: the not-found answer, no revalidation *)
C7_Witness ==
    /\ last.op = "updateWorkoutAction"
    /\ last.target = UnusedUuid
    /\ workouts # {}
    /\ last.queried = <<"updateWorkout">>
    /\ last.outcome = NotFoundOrNotOwned
    /\ last.revalidated = <<>>

----------------------------------------------------------------------------
(* C8: a server action never raises to its caller: each call returns one  *)
(* of success, "Unauthorized", "Invalid input", the not-found message,    *)
(* "Failed to create workout" or "Failed to update workout", and no       *)
(* storage error text comes back.                                         *)
GatewayErrors ==
    {"Unauthorized", "Invalid input",
     "Workout not found or you do not have permission to edit it",
     "Failed to create workout", "Failed to update workout"}

InternalErrorTexts == {StoreErrorText, RevalidateErrorText, UuidErrorText}

ReturnedTaxonomy ==
    /\ Returned
    /\ \/ Succeeded
       \/ \E error \in GatewayErrors : FailedWith(error)
    /\ ~ Succeeded => last.outcome.value.error \notin InternalErrorTexts

C8_NeverRaises ==
    last.op \in GatewayActions => ReturnedTaxonomy

(* the same for the two typed actions, which do catch *)
C8_TypedNeverRaises ==
    last.op \in TypedActions => ReturnedTaxonomy

----------------------------------------------------------------------------
(* C9: a path is revalidated only by a call whose write was committed,    *)
(* and every call that returns success has revalidated: a create the      *)
(* dashboard list, an update the dashboard list and then the workout's    *)
(* detail view; a call that ends Unauthorized, Invalid input or not found *)
(* revalidates nothing.                                                   *)
WriteCommitted ==
    /\ last.queried # <<>>
    /\ last.fault # "store"
    /\ IF last.op = "updateWorkoutAction"
       THEN /\ OwnRows(last.before, last.target, last.userId) # {}
            /\ \E row \in OwnRows(workouts, last.target, last.userId) :
                  row.updatedAt = DateOf(now)
       ELSE \E row \in workouts \ last.before : row.userId = last.userId

ExpectedRevalidation ==
    IF last.op = "updateWorkoutAction"
    THEN <<DashboardPath, WorkoutPath(last.target)>>
    ELSE <<DashboardPath>>

C9_RevalidateAfterWrite ==
    last.op \in GatewayActions =>
        /\ last.revalidated # <<>> => WriteCommitted
        /\ Succeeded => last.revalidated = ExpectedRevalidation /\ WriteCommitted
        /\ (\/ FailedWith("Unauthorized")
            \/ FailedWith("Invalid input")
            \/ last.outcome = NotFoundOrNotOwned)
              => last.revalidated = <<>> /\ workouts = last.before

(* an owner's update succeeded and revalidated the list and the detail    *)
(* view of that workout                                                   *)
C9_Witness ==
    /\ last.op = "updateWorkoutAction"
    /\ Succeeded
    /\ workouts # last.before
    /\ last.revalidated = <<DashboardPath, WorkoutPath(last.target)>>
    /\ last.outcome.value.workout \in workouts

----------------------------------------------------------------------------
(* C10: getUserWorkouts(userId) lists each workout of that user once and  *)
(* no workout of another user, most recently started first.               *)
IsOwnedListing(listing, store, userId) ==
    /\ {listing[i] : i \in 1..Len(listing)} = {row \in store : row.userId = userId}
    /\ Len(listing) = Cardinality({row \in store : row.userId = userId})
    /\ \A i \in 1..Len(listing) - 1 :
          listing[i].startedAt.v >= listing[i + 1].startedAt.v

C10_ListOwnedDescending ==
    /\ Idle =>
        \A userId \in Users :
            /\ getUserWorkouts(workouts, userId) # {}
            /\ \A listing \in getUserWorkouts(workouts, userId) :
                  IsOwnedListing(listing, workouts, userId)
    /\ last.op = "DashboardPage" /\ last.outcome.kind = "render" =>
          IsOwnedListing(last.outcome.props.workouts, workouts, last.userId)

(* the dashboard listed a user's two workouts, and the one created first  *)
(* comes second, having started earlier                                   *)
C10_Witness ==
    /\ last.op = "DashboardPage"
    /\ last.outcome.kind = "render"
    /\ Len(last.outcome.props.workouts) = 2
    /\ last.outcome.props.workouts[1].startedAt.v
          > last.outcome.props.workouts[2].startedAt.v
    /\ last.outcome.props.workouts[1].id[2] > last.outcome.props.workouts[2].id[2]

----------------------------------------------------------------------------
(* C11: getUserWorkoutsByDate(userId, date) is getUserWorkouts(userId)    *)
(* with the rows left out whose startedAt is on another calendar day than *)
(* date, the rest in the order they had: a row started in the first or in *)
(* the last millisecond of the day is listed, one started in the last     *)
(* millisecond of the day before or the first of the day after is not,    *)
(* whatever its completedAt and createdAt.                                *)
DayOf(d) == d.v \div MsPerDay

StartedOn(workout, date) == DayOf(workout.startedAt) = DayOf(date)

C11_ListByDate ==
    /\ Idle =>
        \A userId \in Users, date \in ByDateInputs :
            LET on(workout) == StartedOn(workout, date)
            IN  getUserWorkoutsByDate(workouts, userId, date)
                  = {SelectSeq(all, on) : all \in getUserWorkouts(workouts, userId)}
    /\ last.op = "getUserWorkoutsByDate" =>
        LET listing == last.outcome.value
            listed == {listing[i] : i \in 1..Len(listing)}
        IN  /\ listed = {row \in workouts :
                            row.userId = last.userId /\ StartedOn(row, last.date)}
            /\ Len(listing) = Cardinality(listed)
            /\ \A i \in 1..Len(listing) - 1 :
                  listing[i].startedAt.v >= listing[i + 1].startedAt.v

(* asked for the day, the listing holds the row started in its last       *)
(* millisecond and not the user's row started in the first millisecond of *)
(* the day after, though that one was created and completed on the day    *)
C11_Witness ==
    /\ last.op = "getUserWorkoutsByDate"
    /\ last.date = Noon
    /\ Len(last.outcome.value) = 1
    /\ last.outcome.value[1].startedAt = DateOf(DayAfter.v - 1)
    /\ \E row \in workouts :
          /\ row.userId = last.userId
          /\ row.startedAt = DayAfter
          /\ row.createdAt = Noon
          /\ row.completedAt = Noon

----------------------------------------------------------------------------
(* C12: every workout a read returns (getUserWorkout, getUserWorkouts,    *)
(* getUserWorkoutsByDate) carries exactly its own exercises, in ascending *)
(* order, and each exercise exactly its own sets, in ascending setNumber, *)
(* whatever order the rows were inserted in.                              *)
Ascending(seq, key) ==
    \A i \in 1..Len(seq) - 1 : seq[i][key] <= seq[i + 1][key]

Ids(seq) == {seq[i].id : i \in 1..Len(seq)}

NestedInOrder(workout) ==
    /\ Ascending(workout.workoutExercises, "order")
    /\ Ids(workout.workoutExercises)
          = {row.id : row \in {r \in workoutExercises : r.workoutId = workout.id}}
    /\ Len(workout.workoutExercises) = Cardinality(Ids(workout.workoutExercises))
    /\ \A i \in 1..Len(workout.workoutExercises) :
          LET exercise == workout.workoutExercises[i]
          IN  /\ Ascending(exercise.sets, "setNumber")
              /\ Ids(exercise.sets)
                    = {row.id : row \in {r \in sets : r.workoutExerciseId = exercise.id}}
              /\ Len(exercise.sets) = Cardinality(Ids(exercise.sets))

C12_NestedAscending ==
    /\ last.op = "getUserWorkout" /\ last.outcome.value # NotFound =>
          NestedInOrder(last.outcome.value)
    /\ last.op \in {"getUserWorkouts", "getUserWorkoutsByDate"} =>
          \A i \in 1..Len(last.outcome.value) : NestedInOrder(last.outcome.value[i])

(* a workout read with two exercises, the one inserted second listed      *)
(* first, and in one of them two sets, the one inserted second first      *)
C12_Witness ==
    /\ last.op = "getUserWorkout"
    /\ last.outcome.value # NotFound
    /\ LET listed == last.outcome.value.workoutExercises
       IN  /\ Len(listed) = 2
           /\ listed[1].order < listed[2].order
           /\ listed[1].id[2] > listed[2].id[2]
           /\ \E i \in 1..2 :
                 /\ Len(listed[i].sets) = 2
                 /\ listed[i].sets[1].setNumber < listed[i].sets[2].setNumber
                 /\ listed[i].sets[1].id[2] > listed[i].sets[2].id[2]

----------------------------------------------------------------------------
(* C13: createWorkout({name, startedAt}, A) followed by                   *)
(* getUserWorkout(returned id, A) gives the row createWorkout returned,   *)
(* with that name, that startedAt and completedAt null.                   *)
C13_CreateReadRoundTrip ==
    /\ Idle =>
        \A userId \in Users, name \in NameInputs, startedAt \in Dates,
           newId \in NewIds \cup {UnusedUuid} :
            LET created == createWorkout(workouts,
                                         [name |-> name, startedAt |-> startedAt],
                                         userId, newId, now)
                read == getUserWorkout(created.store, created.workout.id, userId)
            IN  /\ read # NotFound
                /\ read = created.workout
                /\ read.name = name
                /\ read.startedAt = startedAt
                /\ read.completedAt = Null
    /\ last.op = "createWorkoutAction" /\ Succeeded =>
        LET read == getUserWorkout(workouts, last.outcome.value.workout.id, last.userId)
        IN  /\ read = last.outcome.value.workout
            /\ read.completedAt = Null

(* a named workout started at another instant than it was created at was  *)
(* added to a table that held a row, and its owner reads it back          *)
C13_Witness ==
    /\ last.op = "createWorkoutAction"
    /\ Succeeded
    /\ last.before # {}
    /\ LET read == getUserWorkout(workouts, last.outcome.value.workout.id, last.userId)
       IN  /\ read \in workouts \ last.before
           /\ read.name = Str(Pad(NameMax))
           /\ read.startedAt # read.createdAt
           /\ read.completedAt = Null

----------------------------------------------------------------------------
(* C14: after updateWorkout(id, data, owner) each of name, startedAt and  *)
(* completedAt is the data's value where the data has the key (null       *)
(* included) and the previous value where it has not; id, userId and      *)
(* createdAt are as before, and no other row changes.                     *)
PatchFields == {"name", "startedAt", "completedAt"}

PatchApplied(before, data, after) ==
    /\ \A k \in PatchFields :
          after[k] = IF k \in DOMAIN data THEN data[k] ELSE before[k]
    /\ after.id = before.id
    /\ after.userId = before.userId
    /\ after.createdAt = before.createdAt

C14_PartialUpdate ==
    /\ Idle =>
        \A row \in workouts, data \in UpdateData :
            LET updated == updateWorkout(workouts, row.id, data, row.userId, now)
            IN  /\ updated.workout # NotFound
                /\ PatchApplied(row, data, updated.workout)
                /\ updated.store = (workouts \ {row}) \cup {updated.workout}
    /\ last.op = "updateWorkoutAction" /\ Succeeded =>
        \E before \in OwnRows(last.before, last.target, last.userId) :
            LET after == last.outcome.value.workout
            IN  /\ after \in workouts
                /\ after.id = before.id
                /\ after.userId = before.userId
                /\ after.createdAt = before.createdAt
                /\ \E data \in UpdateData : PatchApplied(before, data, after)

(* an update that named completedAt only: the workout's name and          *)
(* startedAt are as they were, completedAt is set                         *)
C14_Witness ==
    /\ last.op = "updateWorkoutAction"
    /\ Succeeded
    /\ \E before \in OwnRows(last.before, last.target, last.userId) :
          LET after == last.outcome.value.workout
          IN  /\ before.name = Str(Pad(NameMax))
              /\ after.name = before.name
              /\ after.startedAt = before.startedAt
              /\ before.completedAt = Null
              /\ after.completedAt \in Dates

----------------------------------------------------------------------------
Stamped(before, after, clock) ==
    /\ after.updatedAt = DateOf(clock)
    /\ after.updatedAt.v >= before.updatedAt.v
    /\ after.updatedAt.v >= before.createdAt.v
    /\ clock > before.updatedAt.v =>
          /\ after.updatedAt.v > before.updatedAt.v
          /\ after.updatedAt.v > before.createdAt.v

----------------------------------------------------------------------------
(* C16: a workout is in progress (completedAt null) when created; its     *)
(* owner's update with a completedAt completes it and its owner's update  *)
(* with completedAt null puts it back in progress; whatever state the     *)
(* workout is in, either update is accepted.                              *)
InProgress(workout) == workout.completedAt = Null
Completed(workout) == workout.completedAt # Null

UpdateEnds(row, patch) ==
    updateWorkoutAction(workouts, row.userId, Merge([workoutId |-> row.id], patch),
                        now, "none")

Accepted(ended) == ended.outcome.kind = "return" /\ ended.outcome.value.success

C16_Lifecycle ==
    /\ last.op = "createWorkoutAction" /\ Succeeded =>
          InProgress(last.outcome.value.workout)
    /\ Idle =>
        \A row \in workouts :
            /\ \A completedAt \in Dates :
                  LET ended == UpdateEnds(row, [completedAt |-> completedAt])
                  IN  /\ Accepted(ended)
                      /\ Completed(ended.outcome.value.workout)
                      /\ ended.outcome.value.workout \in ended.store
            /\ LET ended == UpdateEnds(row, [completedAt |-> Null])
               IN  /\ Accepted(ended)
                   /\ InProgress(ended.outcome.value.workout)
                   /\ ended.outcome.value.workout \in ended.store

(* the workout was created, completed by an update, and the update just   *)
(* committed has put it back in progress                                  *)
C16_Witness ==
    /\ last.op = "updateWorkoutAction"
    /\ Succeeded
    /\ InProgress(last.outcome.value.workout)
    /\ \E before \in OwnRows(last.before, last.target, last.userId) : Completed(before)
    /\ \E created \in CommittedStatements, completing \in CommittedStatements :
          /\ created.kind = "insert"
          /\ completing.kind = "update"
          /\ created.order < completing.order
          /\ "completedAt" \in DOMAIN completing.input
          /\ completing.input.completedAt # Null

----------------------------------------------------------------------------
(* C17: a workout is never removed and never closed to its owner: every   *)
(* row of the table before a call is in the table after it, under the     *)
(* same id, owner and createdAt; its owner's getUserWorkout finds it; and *)
(* its owner's updateWorkoutAction with any valid input succeeds on it    *)
(* when nothing throws, be it in progress or completed.                   *)
Kept(before, store) ==
    \E row \in store :
        /\ row.id = before.id
        /\ row.userId = before.userId
        /\ row.createdAt = before.createdAt

----------------------------------------------------------------------------
(* C18: with updates of one workout by its owner in flight together, the  *)
(* row is what the committed updates give one after the other in commit   *)
(* order: each column holds the value of the update committed last among  *)
(* those that set it (updatedAt: that update's own clock reading), or the *)
(* inserted value when none did; statements in flight show nowhere, and   *)
(* the owner's read returns that row.                                     *)
Sets(st) == updateWorkoutSet(Omit(updateWorkoutSchemaData(st.input), {"workoutId"}),
                             st.clock)

InsertOf(row) ==
    CHOOSE st \in CommittedStatements : st.kind = "insert" /\ st.id = row.id

InsertedBy(st) ==
    insertedRow(createWorkoutValues(createWorkoutSchemaData(st.input), st.userId),
                st.id, st.clock)

UpdatesOf(row) ==
    {st \in CommittedStatements :
        /\ st.kind = "update"
        /\ st.id = row.id
        /\ st.userId = row.userId
        /\ st.order > InsertOf(row).order}

LastSetting(row, k) ==
    {st \in UpdatesOf(row) :
        /\ k \in DOMAIN Sets(st)
        /\ \A other \in UpdatesOf(row) :
              k \in DOMAIN Sets(other) => other.order <= st.order}

C18_LastWriteWins ==
    \A row \in workouts :
        /\ \E st \in CommittedStatements : st.kind = "insert" /\ st.id = row.id
        /\ \A k \in DOMAIN row :
              row[k] = IF LastSetting(row, k) = {}
                       THEN InsertedBy(InsertOf(row))[k]
                       ELSE Sets(CHOOSE st \in LastSetting(row, k) : TRUE)[k]
        /\ getUserWorkout(workouts, row.id, row.userId) = row

(* two updates were in flight together and committed in the reverse of    *)
(* the order they were sent in: completedAt, set by both, is the one of   *)
(* the update committed last, name is the one the other set, and          *)
(* updatedAt is the earlier clock reading                                 *)
C18_Witness ==
    /\ last.op = "updateWorkoutAction"
    /\ Succeeded
    /\ \E first \in CommittedStatements, second \in CommittedStatements :
          /\ first.kind = "update" /\ second.kind = "update"
          /\ first.n < second.n
          /\ second.order < first.order
          /\ first.clock < second.clock
          /\ "completedAt" \in DOMAIN first.input
          /\ "completedAt" \in DOMAIN second.input
          /\ first.input.completedAt # second.input.completedAt
          /\ "name" \in DOMAIN second.input /\ "name" \notin DOMAIN first.input
          /\ \E row \in workouts :
                /\ row.id = first.id
                /\ row.completedAt = first.input.completedAt
                /\ row.name = second.input.name
                /\ row.name # InsertedBy(InsertOf(row)).name
                /\ row.updatedAt = DateOf(first.clock)

----------------------------------------------------------------------------
(* C19: what a user's requests return, and what they do to the user's own *)
(* rows, is the same with the other users' rows in the table as without   *)
(* them (the table the run without the other users' requests leaves, up   *)
(* to the choice of fresh ids); and a request leaves the rows of every    *)
(* user but its caller as they were.  The reads are compared in every    *)
(* state between requests, the mutations where one can still be made.     *)
RowsOf(store, userId) == {row \in store : row.userId = userId}
RowsOfOthers(store, userId) == {row \in store : row.userId # userId}

(* a mutation's end with the table as it is, against its end with the     *)
(* caller's rows alone                                                    *)
SameForCaller(seen, alone, userId) ==
    /\ seen.outcome = alone.outcome
    /\ seen.revalidated = alone.revalidated
    /\ seen.queried = alone.queried
    /\ RowsOf(seen.store, userId) = alone.store
    /\ RowsOfOthers(seen.store, userId) = RowsOfOthers(workouts, userId)

C19_UsersDoNotInteract ==
    /\ ~ Idle =>
        \A userId \in Users \ {last.userId} :
            RowsOf(workouts, userId) = RowsOf(last.before, userId)
    /\ Idle =>
        \A userId \in Users :
            LET own == RowsOf(workouts, userId)
            IN  /\ getUserWorkouts(workouts, userId) = getUserWorkouts(own, userId)
                /\ \A date \in {DateOf(0), TheDay} :
                      getUserWorkoutsByDate(workouts, userId, date)
                          = getUserWorkoutsByDate(own, userId, date)
                /\ \A workoutId \in IdInputs :
                      /\ getUserWorkout(workouts, workoutId, userId)
                            = getUserWorkout(own, workoutId, userId)
                      /\ EditWorkoutPage(workouts, userId, workoutId).outcome
                            = EditWorkoutPage(own, userId, workoutId).outcome
                /\ steps < MaxSteps => \A fault \in Faults :
                      /\ \A input \in UpdateInputs :
                            SameForCaller(
                                updateWorkoutAction(workouts, userId, input, now, fault),
                                updateWorkoutAction(own, userId, input, now, fault),
                                userId)
                      /\ \A newId \in NewIds \cup {UnusedUuid} :
                          /\ \A input \in CreateInputs :
                                SameForCaller(
                                    createWorkoutAction(workouts, userId, input, newId,
                                                        now, fault),
                                    createWorkoutAction(own, userId, input, newId,
                                                        now, fault),
                                    userId)
                          /\ \A formData \in FormDataInputs :
                                SameForCaller(
                                    dashboardCreateWorkoutAction(workouts, userId, formData,
                                                                 newId, now, fault),
                                    dashboardCreateWorkoutAction(own, userId, formData,
                                                                 newId, now, fault),
                                    userId)

(* a user's update named a workout of another user: it ended as it ends   *)
(* with the caller's rows alone, and the other user's workout is as it was *)
C19_Witness ==
    /\ last.op = "updateWorkoutAction"
    /\ last.userId \in Users
    /\ \E row \in RowsOfOthers(last.before, last.userId) : row.id = last.target
    /\ RowsOfOthers(workouts, last.userId) = RowsOfOthers(last.before, last.userId)
    /\ ~ Succeeded
    /\ \E input \in UpdateInputs :
          /\ input = [workoutId |-> last.target, completedAt |-> DateOf(0)]
          /\ last.outcome
                = updateWorkoutAction(RowsOf(last.before, last.userId), last.userId,
                                      input, now, last.fault).outcome

----------------------------------------------------------------------------
(* C20: nothing enforces completedAt >= startedAt: the owner's            *)
(* updateWorkoutAction whose fields, laid over the stored row, put the    *)
(* completedAt before the startedAt (a completedAt earlier than the       *)
(* workout's startedAt, a startedAt later than its completedAt, or both   *)
(* fields at once) is accepted, and the row it leaves and returns has     *)
(* completedAt < startedAt.                                               *)
EndsBeforeStart(workout) ==
    /\ workout.completedAt # Null
    /\ workout.completedAt.v < workout.startedAt.v

DatePatches ==
    {Obj([startedAt |-> s, completedAt |-> c]) :
        s \in Dates \cup {Absent}, c \in Dates \cup {Absent}}

C20_EndBeforeStartAccepted ==
    Idle =>
        \A row \in workouts : \A patch \in DatePatches :
            EndsBeforeStart(Merge(row, patch)) =>
                LET ended == UpdateEnds(row, patch)
                IN  /\ Accepted(ended)
                    /\ EndsBeforeStart(ended.outcome.value.workout)
                    /\ \E after \in ended.store :
                          /\ after.id = row.id
                          /\ EndsBeforeStart(after)

(* an owner's update was accepted and left the workout completed before   *)
(* it started                                                             *)
C20_Witness ==
    /\ last.op = "updateWorkoutAction"
    /\ Succeeded
    /\ \E before \in last.before : \E after \in workouts :
          /\ before.id = last.target /\ after.id = last.target
          /\ before.userId = last.userId
          /\ ~ EndsBeforeStart(before)
          /\ EndsBeforeStart(after)
          /\ last.outcome.value.workout = after

----------------------------------------------------------------------------
(* C21: as stated, the order values of the WorkoutExercise rows of one    *)
(* workoutId are pairwise distinct in every state of the store.  The      *)
(* schema's index on (workoutId, order) is not a unique one, and the      *)
(* store holds what the schema admits.                                    *)
ExercisesOf(workoutId) == {row \in workoutExercises : row.workoutId = workoutId}

OrdersDistinct(workoutId) ==
    \A a, b \in ExercisesOf(workoutId) : a.order = b.order => a = b

IdSequence(seq) == [i \in DOMAIN seq |-> seq[i].id]

StrictlyAscending(seq, key) ==
    \A i \in 1..Len(seq) - 1 : seq[i][key] < seq[i + 1][key]

----------------------------------------------------------------------------
(* C22: in every state each WorkoutExercise references a Workout and an   *)
(* Exercise that exist and each Set a WorkoutExercise that exists; and a  *)
(* delete of a Workout row removes exactly that row, its WorkoutExercise  *)
(* rows and their Set rows, and no Exercise row.                          *)
ReferentialIntegrity(tables) ==
    /\ \A row \in tables.workoutExercises :
          /\ \E workout \in tables.workouts : workout.id = row.workoutId
          /\ \E exercise \in tables.exercises : exercise.id = row.exerciseId
    /\ \A row \in tables.sets :
          \E exercise \in tables.workoutExercises : exercise.id = row.workoutExerciseId

C22_CascadeKeepsReferences ==
    /\ ReferentialIntegrity(Stored)
    /\ last.op = "deleteWorkout" =>
          LET goneExercises == {row \in last.before.workoutExercises :
                                   row.workoutId = last.target}
              goneSets == {row \in last.before.sets :
                              \E exercise \in goneExercises :
                                  exercise.id = row.workoutExerciseId}
          IN  /\ last.outcome = "ok"
              /\ workouts = {row \in last.before.workouts : row.id # last.target}
              /\ workoutExercises = last.before.workoutExercises \ goneExercises
              /\ sets = last.before.sets \ goneSets
              /\ exercises = last.before.exercises

(* a workout was deleted that had an exercise with a set, while the other *)
(* workout had an exercise with a set too: the first's are gone, the      *)
(* other's and the catalog are there                                      *)
C22_Witness ==
    /\ last.op = "deleteWorkout"
    /\ \E row \in last.before.workouts : row.id = last.target
    /\ \E exercise \in last.before.workoutExercises, row \in last.before.sets :
          /\ exercise.workoutId = last.target
          /\ row.workoutExerciseId = exercise.id
          /\ exercise \notin workoutExercises
          /\ row \notin sets
          /\ \E catalogued \in exercises : catalogued.id = exercise.exerciseId
    /\ workoutExercises # {}
    /\ sets # {}

----------------------------------------------------------------------------
(* C23: a protected page asked for without a session redirects to         *)
(* /sign-in, calls no function of the query layer and renders nothing;    *)
(* asked for with a session it calls the query layer with that session's  *)
(* userId only, so what it renders is that user's.                        *)
Pages == {"DashboardPage", "EditWorkoutPage", "NewWorkoutPage"}

C23_PagesCheckSessionFirst ==
    /\ last.op \in Pages => workouts = last.before
    /\ last.op \in Pages /\ last.userId = NoUser =>
          /\ last.outcome = Redirect("/sign-in")
          /\ last.queried = <<>>
    /\ last.op = "NewWorkoutPage" /\ last.userId # NoUser =>
          /\ last.outcome.kind = "render"
          /\ last.queried = <<>>
    /\ last.op = "DashboardPage" /\ last.userId # NoUser =>
          /\ last.queried = <<"getUserWorkouts">>
          /\ last.outcome.kind = "render"
          /\ last.outcome.props.workouts \in getUserWorkouts(workouts, last.userId)
    /\ last.op = "EditWorkoutPage" /\ last.userId # NoUser =>
          /\ EditWorkoutPageQuery(workouts, last.userId, last.target)
                = [workoutId |-> last.target, userId |-> last.userId]
          /\ last.queried = <<"getUserWorkout">>
          /\ last.outcome
                = EditWorkoutPage(RowsOf(workouts, last.userId), last.userId,
                                  last.target).outcome

(* the page of a stored workout was asked for without a session: it     *)
(* redirected, and called nothing                                         *)
C23_Witness ==
    /\ last.op = "EditWorkoutPage"
    /\ last.userId = NoUser
    /\ \E row \in workouts : row.id = last.target
    /\ last.outcome = Redirect("/sign-in")
    /\ last.queried = <<>>

----------------------------------------------------------------------------
(* C24: as stated, in every state reached through createWorkoutAction,    *)
(* the dashboard's createWorkoutAction and updateWorkoutAction, each      *)
(* workout's name is null or a string of 1 to 100 characters.  The        *)
(* dashboard's action stores formData's name as it comes.                 *)
NameWithinBounds(workout) == workout.name = Null \/ IsNameString(workout.name)

C24_NameWithinBounds == \A workout \in workouts : NameWithinBounds(workout)

(* what holds: a name that createWorkoutAction or updateWorkoutAction     *)
(* wrote is such a name                                                   *)
C24_TypedNameWithinBounds ==
    last.op \in {"createWorkoutAction", "updateWorkoutAction"} /\ Succeeded =>
        \/ NameWithinBounds(last.outcome.value.workout)
        \/ \E before \in last.before :
              /\ before.id = last.outcome.value.workout.id
              /\ before.name = last.outcome.value.workout.name

----------------------------------------------------------------------------
(* C25: createWorkoutAction and updateWorkoutAction authenticate, then    *)
(* validate, then call the query layer, then revalidate: without a        *)
(* session the answer is "Unauthorized" whatever the input, an input the  *)
(* schema rejects is answered "Invalid input", the query layer is called  *)
(* only past both, with the validated data (an input with more keys ends  *)
(* as the input without them), and a path is revalidated only after the   *)
(* query layer was called.                                                *)
FailedAs(ended, error) ==
    /\ ended.outcome.kind = "return"
    /\ ~ ended.outcome.value.success
    /\ ended.outcome.value.error = error

(* keys no schema knows, besides the input's own *)
WithMoreKeys(input) ==
    Merge([id |-> UnusedUuid, createdAt |-> DateOf(LastTime), notes |-> Str("x")], input)

InOrder(ended, userId, errors, validated, store) ==
    /\ userId = NoUser =>
          FailedAs(ended, "Unauthorized") /\ ended.queried = <<>>
    /\ userId # NoUser /\ errors # {} =>
          FailedAs(ended, "Invalid input") /\ ended.queried = <<>>
    /\ ended.queried # <<>> => userId # NoUser /\ errors = {}
    /\ ended.queried = <<>> => ended.store = store
    /\ ended.revalidated # <<>> => ended.queried # <<>>
    /\ ended = validated

C25_StepsInOrder ==
    Idle /\ steps < MaxSteps =>
        \A userId \in Sessions, fault \in Faults :
            /\ \A raw \in UpdateInputs : \A input \in {raw, WithMoreKeys(raw)} :
                  InOrder(updateWorkoutAction(workouts, userId, input, now, fault),
                          userId, updateWorkoutSchemaErrors(input),
                          updateWorkoutAction(workouts, userId,
                                              updateWorkoutSchemaData(input), now, fault),
                          workouts)
            /\ \A raw \in CreateInputs, newId \in NewIds :
                  \A input \in {raw, WithMoreKeys(raw)} :
                      InOrder(createWorkoutAction(workouts, userId, input, newId, now, fault),
                              userId, createWorkoutSchemaErrors(input),
                              createWorkoutAction(workouts, userId,
                                                  createWorkoutSchemaData(input),
                                                  newId, now, fault),
                              workouts)

(* updateWorkoutAction was called without a session and with a workoutId  *)
(* that is no uuid: it answered "Unauthorized" and called nothing         *)
C25_Witness ==
    /\ last.op = "updateWorkoutAction"
    /\ last.userId = NoUser
    /\ last.target = NotAUuid
    /\ updateWorkoutSchemaErrors([workoutId |-> last.target]) # {}
    /\ FailedWith("Unauthorized")
    /\ last.queried = <<>>

----------------------------------------------------------------------------
(* C26: no action and no function of the query layer changes the userId,  *)
(* the id or the createdAt of a stored workout, or removes it; an         *)
(* updateWorkoutAction whose input carries a userId or an id leaves them  *)
(* as they were.                                                          *)
SameIdentity(before, after) ==
    /\ after.id = before.id
    /\ after.userId = before.userId
    /\ after.createdAt = before.createdAt

IdentitiesKept(store, after) ==
    \A before \in store : \E row \in after : SameIdentity(before, row)

(* data as updateWorkout's parameter type admits it *)
TypedPatches ==
    {patch \in UpdatePatches :
        /\ DOMAIN patch \subseteq {"name", "startedAt", "completedAt"}
        /\ updateWorkoutSchemaErrors(Merge([workoutId |-> UnusedUuid], patch)) = {}}

C26_OwnershipImmutable ==
    /\ IdentitiesKept(last.before, workouts)
    /\ Cardinality({row.id : row \in workouts}) = Cardinality(workouts)
    /\ Idle /\ steps < MaxSteps =>
          \A userId \in Users :
              /\ \A workoutId \in Uuids, data \in TypedPatches :
                    IdentitiesKept(workouts,
                        updateWorkout(workouts, workoutId, data, userId, now).store)
              /\ \A newId \in NewIds, name \in ValidNames, startedAt \in Dates :
                    IdentitiesKept(workouts,
                        createWorkout(workouts, [name |-> name, startedAt |-> startedAt],
                                      userId, newId, now).store)

(* an owner's update whose input carried the userId of another user       *)
(* succeeded: the workout is the owner's as before                        *)
C26_Witness ==
    /\ last.op = "updateWorkoutAction"
    /\ Succeeded
    /\ last.claimed \in Users \ {last.userId}
    /\ workouts # last.before
    /\ \E before \in last.before, after \in workouts :
          /\ before.id = last.target
          /\ SameIdentity(before, after)
          /\ after.userId = last.userId
          /\ after # before

----------------------------------------------------------------------------
(* C27: as stated, whenever createWorkoutAction or updateWorkoutAction    *)
(* returns a failure, the catch block's included, that call has not       *)
(* changed the table.  revalidatePath runs inside the try, after the      *)
(* write.                                                                 *)
FailureReturned ==
    /\ last.op \in TypedActions
    /\ Returned
    /\ last.outcome.value # Null
    /\ ~ last.outcome.value.success

C27_FailureNeverWrites == FailureReturned => workouts = last.before

(* C27, amended: a failure returned before the query layer is called, or  *)
(* because the query layer threw, or because no row matched, leaves the   *)
(* table as it was; the failure returned because revalidatePath threw     *)
(* comes after the write, which stays: the row createWorkout inserted is  *)
(* in the table, and the table is the one updateWorkout left.             *)
RevalidateFaults == {"revalidatePath1", "revalidatePath2"}

C27_FailureWritesOnlyPastTheWrite ==
    /\ FailureReturned /\ last.fault \notin RevalidateFaults => workouts = last.before
    /\ FailureReturned /\ last.queried = <<>> => workouts = last.before
    /\ FailureReturned /\ last.op = "createWorkoutAction"
          /\ last.fault = "revalidatePath1" /\ last.queried # <<>> =>
          /\ last.outcome.value.error = "Failed to create workout"
          /\ last.before \subseteq workouts
          /\ \E row \in workouts \ last.before :
                /\ row.userId = last.userId
                /\ workouts = last.before \cup {row}
    /\ Idle /\ steps < MaxSteps =>
          \A userId \in Users, input \in UpdateInputs, fault \in RevalidateFaults :
              LET ended == updateWorkoutAction(workouts, userId, input, now, fault)
                  data == Omit(updateWorkoutSchemaData(input), {"workoutId"})
              IN  ~ Accepted(ended) /\ ended.queried # <<>> =>
                      ended.store
                          = updateWorkout(workouts, input.workoutId, data, userId, now).store

(* createWorkoutAction returned "Failed to create workout" because        *)
(* revalidatePath threw: the workout is in the table                      *)
C27_Witness ==
    /\ FailureReturned
    /\ last.op = "createWorkoutAction"
    /\ last.fault = "revalidatePath1"
    /\ last.outcome.value.error = "Failed to create workout"
    /\ workouts # last.before

----------------------------------------------------------------------------
(* C28: as stated, a workout's updatedAt never decreases, whatever the    *)
(* interleaving of the updates.  Each update reads the clock when it is   *)
(* built, and the updates commit in any order.                            *)
C28_UpdatedAtNeverDecreases ==
    [][\A before \in workouts : \A after \in workouts' :
          after.id = before.id => after.updatedAt.v >= before.updatedAt.v]_vars

(* C28, amended: a workout's updatedAt is the clock reading of the update *)
(* committed last (the insert's, when none committed), whichever reading  *)
(* is the later one, and it is never earlier than createdAt.              *)
LatestCommitted(row) ==
    {st \in UpdatesOf(row) : \A other \in UpdatesOf(row) : other.order <= st.order}

C28_UpdatedAtOfLatestCommit ==
    \A row \in workouts :
        /\ row.createdAt = DateOf(InsertOf(row).clock)
        /\ UpdatesOf(row) = {} => row.updatedAt = row.createdAt
        /\ \A st \in LatestCommitted(row) : row.updatedAt = DateOf(st.clock)
        /\ Cardinality(LatestCommitted(row)) <= 1
        /\ row.updatedAt.v >= row.createdAt.v

(* two updates committed in the reverse of the order their clocks were    *)
(* read in: updatedAt is the earlier reading, lower than it was in between *)
C28_Witness ==
    \E row \in workouts :
        \E first \in UpdatesOf(row), second \in LatestCommitted(row) :
            /\ first.order < second.order
            /\ second.clock < first.clock
            /\ row.updatedAt = DateOf(second.clock)
            /\ row.updatedAt.v >= row.createdAt.v

----------------------------------------------------------------------------
(* C29: for every listing and every selected date the dashboard's filter  *)
(* keeps exactly the workouts that getUserWorkoutsByDate's range from     *)
(* 00:00:00.000 to 23:59:59.999 keeps, in the listing's order; with no    *)
(* date selected it keeps the whole listing.                              *)
C29_ClientFilterIsRangeFilter ==
    /\ Idle =>
        \A userId \in Users : \A listing \in getUserWorkouts(workouts, userId) :
            /\ filteredWorkouts(listing, Null) = listing
            /\ \A selectedDate \in ClientInstants :
                  LET inRange(workout) == byDateFilter(workout, selectedDate)
                  IN  filteredWorkouts(listing, selectedDate)
                          = SelectSeq(listing, inRange)
    /\ last.op = "DashboardClient" =>
          IF last.date = Null
          THEN last.outcome.value \in getUserWorkouts(workouts, last.userId)
          ELSE last.outcome.value
                  \in getUserWorkoutsByDate(workouts, last.userId, last.date)

(* the user has a workout on the selected day and one on the day of the   *)
(* same number a month before: the first is shown, the second is not      *)
C29_Witness ==
    /\ last.op = "DashboardClient"
    /\ last.date # Null
    /\ Len(last.outcome.value) = 1
    /\ \E shown \in workouts, hidden \in workouts :
          /\ shown.userId = last.userId /\ hidden.userId = last.userId
          /\ last.outcome.value[1] = shown
          /\ getDate(hidden.startedAt) = getDate(last.date)
          /\ getMonth(hidden.startedAt) # getMonth(last.date)
          /\ shown.startedAt # last.date

----------------------------------------------------------------------------
(* C30: in both submit handlers the in-flight flag set at submit (loading, *)
(* isSubmitting) is eventually reset to false whatever the outcome of the  *)
(* action: a success result, a failure result, or a rejected call.         *)
(* As stated it fails: handleSubmit has no try/finally, so a rejected call *)
(* leaves loading true, and the disabled button allows no further submit.  *)
C30_FlagEventuallyReset ==
    /\ newWorkoutForm.loading ~> ~ newWorkoutForm.loading
    /\ dashboardClient.isSubmitting ~> ~ dashboardClient.isSubmitting

(* the awaited call of handleSubmit has resolved with a result *)
Resolved ==
    /\ last.op = "createWorkoutAction"
    /\ last.outcome.kind = "return"

(* loading is set and no result is on its way to handleSubmit *)
Locked ==
    /\ newWorkoutForm.loading
    /\ ~ Resolved

(* C30, as the code has it: handleCreateWorkout resets isSubmitting        *)
(* whatever the outcome; handleSubmit resets loading when the call         *)
(* resolves with a success or a failure result, and when the call rejects  *)
(* loading stays true from then on.                                        *)
C30_FlagResetUnlessRejected ==
    /\ dashboardClient.isSubmitting ~> ~ dashboardClient.isSubmitting
    /\ (newWorkoutForm.loading /\ Resolved) ~> ~ newWorkoutForm.loading
    /\ [][Locked => Locked']_vars

(* handleCreateWorkout is about to settle a rejected call, and             *)
(* NewWorkoutForm is locked by an earlier rejected call                    *)
C30_Witness ==
    /\ last.op = "dashboardCreateWorkoutAction"
    /\ last.outcome.kind = "throw"
    /\ dashboardClient.isSubmitting
    /\ Locked

====
